---- MODULE Spec2Model ----
(***************************************************************************)
(* Verification model of the eeg_art streaming core:                       *)
(*   network/streamer.py            Streamer / UDPStreamer                 *)
(*   streaming/buffer/*.py          ArrayBuffer, RingArrayBuffer,          *)
(*                                  RingBuffer (chunk queue)               *)
(*   boards/virtual_board.py        RingbufferBoard / RandomBoard          *)
(*   streaming/timer.py, updating.py  Timer / Updater                      *)
(* Every component has its own specification over the shared variable      *)
(* list; the variables of the other components stay unchanged.             *)
(***************************************************************************)
EXTENDS Integers, Sequences, FiniteSets, TLC

VARIABLES
    \* ---- Streamer (network/streamer.py)
    stop_event,      \* Streamer.stop_event (threading.Event): TRUE when set
    thread,          \* Streamer.thread: 0 for None, else the id of a Thread
    thr,             \* thread id -> position of that thread in _send_data_loop
    cpc,             \* caller -> position of the caller inside start()/stop()
    last_call,       \* history: the caller's last call and how it went
    sent,            \* history: datagrams handed to the socket (saturating)
    variant,         \* the concrete class: "udp" (UDPStreamer) or "osc" (OSCStreamer)
    \* ---- RingArrayBuffer (streaming/buffer/ring_array_buffer.py)
    r_data,          \* RingArrayBuffer.data: physical slot (0-based) -> sample
    r_zero_index,    \* RingArrayBuffer.zero_index
    r_length,        \* RingArrayBuffer.length
    r_max_length,    \* Buffer._max_length, the ring capacity
    r_hist,          \* history: every sample accepted by extend, in arrival order
    r_op,            \* history: the last operation and its outcome
    r_pre,           \* history: the buffer before the last operation, and its arguments
    r_ret,           \* history: the block the last read returned
    \* ---- ArrayBuffer (streaming/buffer/array_buffer.py)
    a_data,          \* ArrayBuffer.data: the physical store (slot k is a_data[k+1])
    a_capacity,      \* ArrayBuffer.capacity
    a_length,        \* ArrayBuffer.length
    a_max_length,    \* Buffer._max_length, None when unset
    a_next,          \* label of the next sample offered (arrival order)
    a_op,            \* history: the last operation and its outcome
    a_pre,           \* history: content, capacity, length before the last operation
    a_view,          \* the block the last read returned (a numpy view or a copy)
    \* ---- chunk RingBuffer (streaming/buffer/ring_buffer.py)
    q_data,          \* RingBuffer.data: the deque of chunks, oldest first
    q_maxlen,        \* deque maxlen (the max_length argument)
    q_next,          \* label of the next sample offered (arrival order)
    q_op,            \* history: the last operation and its outcome
    q_pre,           \* history: the deque before the last read_array
    q_ret,           \* history: the array the last read_array returned
    q_args,          \* history: the arguments of the last read or read_array
    \* ---- RingbufferBoard (boards/virtual_board.py)
    b_now,           \* time.perf_counter(), in ticks
    b_start_time,    \* RingbufferBoard._start_time, None before start()
    b_last_access,   \* RingbufferBoard._last_access, one cursor per board
    b_rate,          \* RingbufferBoard._sampling_rate, samples per second
    b_buffer_size,   \* RingbufferBoard._buffer_size, None when unset
    b_kind,          \* the concrete class: "random" or "playback"
    b_own_read,      \* history: consumer -> time of its own last destructive read
    b_ret,           \* history: number of samples the last call returned
    b_op,            \* history: the last operation
    \* ---- Updater (streaming/updating.py) on Timer (streaming/timer.py)
    u_now,           \* time.perf_counter(), in ticks
    u_running,       \* Timer._running
    u_start_time,    \* Timer._start_time
    u_stop_time,     \* Timer._stop_time
    u_session_length,\* Updater._session_length, None when unbounded
    u_timer,         \* Updater._timer: None, or the tick the armed timer is due
    u_pending,       \* due ticks of the threading.Timer objects started, not yet
                     \* fired or cancelled, in the order they were armed
    u_last_start,    \* history: the time of the last Timer.start(), None if never
    u_calls,         \* history: update() invocations since the last start()
    u_op,            \* history: the last operation
    \* ---- SamplingCounter (streaming/sampling.py) on Timer
    sc_now,          \* time.perf_counter(), in ticks
    sc_running,      \* Timer._running
    sc_start_time,   \* Timer._start_time
    sc_stop_time,    \* Timer._stop_time
    sc_sampling_rate,    \* SamplingCounter._sampling_rate, samples per second
    sc_max_sample_size,  \* SamplingCounter._max_sample_size, None when unset
    sc_last_sampling_time,  \* SamplingCounter._last_sampling_time
    sc_ret,          \* history: what the last query returned or raised
    sc_op,           \* history: the last operation
    \* ---- indexing of ArrayBuffer / RingArrayBuffer (__getitem__)
    x_kind,          \* the class indexed: "array" or "ring"
    x_capacity,      \* rows of the store (capacity / max_length)
    x_length,        \* the logical length
    x_zero_index,    \* zero_index (0 for an ArrayBuffer)
    x_index,         \* history: the index the last __getitem__ was given
    x_ret,           \* history: the physical slots the last __getitem__ read
    x_op,            \* history: the last operation and its outcome
    \* ---- one writer extending a buffer while one reader reads it
    w_kind,          \* the class of the buffer: "ring" or "array"
    w_data,          \* the store: physical slot (0-based) -> sample
    w_capacity,      \* ArrayBuffer.capacity / RingArrayBuffer.max_length
    w_length,        \* the length field
    w_zero_index,    \* RingArrayBuffer.zero_index (0 for an ArrayBuffer)
    w_next,          \* label of the next sample offered (arrival order)
    w_pc,            \* position of the writer inside extend()
    w_local,         \* the writer's local variables inside extend()
    w_before,        \* history: logical content before the extend under way
    w_after,         \* history: logical content that extend is to produce
    w_seen,          \* history: the content the last read returned
    w_op             \* history: the last step taken

streamerVars == <<stop_event, thread, thr, cpc, last_call, sent, variant>>
ringVars     == <<r_data, r_zero_index, r_length, r_max_length, r_hist, r_op, r_pre, r_ret>>
arrayVars    == <<a_data, a_capacity, a_length, a_max_length, a_next, a_op, a_pre, a_view>>
chunkVars    == <<q_data, q_maxlen, q_next, q_op, q_pre, q_ret, q_args>>
boardVars    == <<b_now, b_start_time, b_last_access, b_rate, b_buffer_size, b_kind,
                  b_own_read, b_ret, b_op>>
updaterVars  == <<u_now, u_running, u_start_time, u_stop_time, u_session_length,
                  u_timer, u_pending, u_last_start, u_calls, u_op>>

samplingVars == <<sc_now, sc_running, sc_start_time, sc_stop_time, sc_sampling_rate,
                  sc_max_sample_size, sc_last_sampling_time, sc_ret, sc_op>>

indexVars    == <<x_kind, x_capacity, x_length, x_zero_index, x_index, x_ret, x_op>>

raceVars     == <<w_kind, w_data, w_capacity, w_length, w_zero_index, w_next, w_pc,
                  w_local, w_before, w_after, w_seen, w_op>>

vars == <<streamerVars, ringVars, arrayVars, chunkVars, boardVars, updaterVars,
          samplingVars,
          indexVars,
          raceVars>>

\* Python's None
None == -1

(***************************************************************************)
(* Idle values of the components a specification does not exercise.        *)
(***************************************************************************)
StreamerIdle ==
    /\ stop_event = FALSE /\ thread = 0 /\ thr = <<>> /\ cpc = <<>>
    /\ last_call = "none" /\ sent = 0 /\ variant = "none"
RingIdle ==
    /\ r_data = <<>> /\ r_zero_index = 0 /\ r_length = 0 /\ r_max_length = 0
    /\ r_hist = <<>> /\ r_op = "none" /\ r_pre = <<>> /\ r_ret = <<>>
ArrayIdle ==
    /\ a_data = <<>> /\ a_capacity = 0 /\ a_length = 0 /\ a_max_length = None
    /\ a_next = 1 /\ a_op = "none" /\ a_pre = <<>> /\ a_view = <<>>
ChunkIdle ==
    /\ q_data = <<>> /\ q_maxlen = 0 /\ q_next = 1 /\ q_op = "none"
    /\ q_pre = <<>> /\ q_ret = <<>> /\ q_args = <<>>
BoardIdle ==
    /\ b_now = 0 /\ b_start_time = None /\ b_last_access = None /\ b_rate = 0
    /\ b_buffer_size = None /\ b_kind = "none"
    /\ b_own_read = <<>> /\ b_ret = 0 /\ b_op = "none"
UpdaterIdle ==
    /\ u_now = 0 /\ u_running = FALSE /\ u_start_time = None /\ u_stop_time = None
    /\ u_session_length = None /\ u_timer = None /\ u_pending = <<>>
    /\ u_last_start = None /\ u_calls = 0 /\ u_op = "none"
SamplingIdle ==
    /\ sc_now = 0 /\ sc_running = FALSE /\ sc_start_time = None /\ sc_stop_time = None
    /\ sc_sampling_rate = 0 /\ sc_max_sample_size = None
    /\ sc_last_sampling_time = None /\ sc_ret = <<>>
    /\ sc_op = [name |-> "none", cap |-> "-"]

IndexIdle ==
    /\ x_kind = "none" /\ x_capacity = 0 /\ x_length = 0 /\ x_zero_index = 0
    /\ x_index = <<>> /\ x_ret = <<>> /\ x_op = "none"

RaceIdle ==
    /\ w_kind = "none" /\ w_data = <<>> /\ w_capacity = 0 /\ w_length = 0
    /\ w_zero_index = 0 /\ w_next = 1 /\ w_pc = "none" /\ w_local = <<>>
    /\ w_before = <<>> /\ w_after = <<>> /\ w_seen = <<>> /\ w_op = "none"

(***************************************************************************)
(* RingArrayBuffer: fixed store, overwrite-oldest extend.                  *)
(***************************************************************************)
\* largest ring capacity (max_length) tried
MaxRingCap == 5
\* samples offered to one ring buffer in a run
MaxRingTotal == 12

Min(a, b) == IF a < b THEN a ELSE b
Max(a, b) == IF a > b THEN a ELSE b

\* the last k elements of a sequence
LastN(seq, k) == SubSeq(seq, Len(seq) - k + 1, Len(seq))

\* np.delete(seq, S, axis=0): seq without the 0-based positions in S
np_delete(seq, S) ==
    LET keep == {i \in 1..Len(seq) : (i - 1) \notin S}
        kth(k) == CHOOSE i \in keep : Cardinality({j \in keep : j <= i}) = k
    IN  [k \in 1..Cardinality(keep) |-> seq[kth(k)]]

\* a block of l new samples, labelled by their arrival order after `have` samples
NewBlock(have, l) == [i \in 1..l |-> have + i]

\* RingArrayBuffer._index for the slice [:]: logical i -> slot (i + zero_index) % max_length
ring_index(i) == (i + r_zero_index) % r_max_length

\* RingArrayBuffer.__getitem__(slice(None)): the logical content
RingContent == [i \in 1..r_length |-> r_data[ring_index(i - 1)]]

\* extend, lines 140-144, written without the wrap: everything lands at s..
ring_write_nowrap(data, n, s, value) ==
    [i \in 0..(n - 1) |->
        IF s <= i /\ i < s + Len(value) THEN value[i - s + 1] ELSE data[i]]

\* extend, lines 139-144: write value at s, wrapping to slot 0 past the end
ring_write(data, n, s, value) ==
    LET l == Len(value)
        e == s + l
    IN  IF e <= n
           THEN [i \in 0..(n - 1) |->
                    IF s <= i /\ i < e THEN value[i - s + 1] ELSE data[i]]
           ELSE [i \in 0..(n - 1) |->
                    IF i >= s THEN value[i - s + 1]
                    ELSE IF i < e - n THEN value[n - s + i + 1]
                    ELSE data[i]]

\* __init__, lines 76-86: np.zeros store of max_length slots, empty buffer
InitRing ==
    /\ r_max_length \in 1..MaxRingCap
    /\ r_data = [i \in 0..(r_max_length - 1) |-> 0]
    /\ r_zero_index = 0
    /\ r_length = 0
    /\ r_hist = <<>>
    /\ r_op = "init"
    /\ r_pre = <<>>
    /\ r_ret = <<>>
    /\ StreamerIdle /\ ArrayIdle /\ ChunkIdle /\ BoardIdle /\ UpdaterIdle /\ SamplingIdle /\ IndexIdle /\ RaceIdle

NotRing == UNCHANGED <<streamerVars, arrayVars, chunkVars, boardVars, updaterVars, samplingVars,
        indexVars,
        raceVars>>

\* the number of slots of the physical store, len(self.data)
RingSize == Cardinality(DOMAIN r_data)

\* RingArrayBuffer.extend(value), lines 130-149. On a store with more than n
\* slots the wrapping write self.data[s:] = value[:n-s] (line 143) reaches
\* past slot n: numpy broadcasts a single row over all of them and rejects
\* any other number of rows
ring_extend(value) ==
    LET n == r_max_length
        l == Len(value)
        s == (r_zero_index + r_length) % n
        e == s + l
        length == IF r_length < n THEN Min(r_length + l, n) ELSE r_length
        written == ring_write(r_data, n, s, value)
    IN  IF l > n \/ (e > n /\ RingSize > n /\ n - s # 1)
           THEN /\ r_op' = "extend_error"
                /\ UNCHANGED <<r_data, r_zero_index, r_length, r_max_length, r_hist>>
           ELSE /\ r_data' = [i \in DOMAIN r_data |->
                                 IF i < n THEN written[i]
                                 ELSE IF e > n THEN value[1] ELSE r_data[i]]
                /\ r_length' = length
                /\ r_zero_index' = (e - length) % n
                /\ r_hist' = r_hist \o value
                /\ r_op' = "extend"
                /\ UNCHANGED r_max_length

RingExtend ==
    /\ \E l \in 0..(r_max_length + 1) :
          /\ Len(r_hist) + l <= MaxRingTotal
          /\ ring_extend(NewBlock(Len(r_hist), l))
    /\ UNCHANGED <<r_pre, r_ret>>
    /\ NotRing

NextRingExtend == RingExtend

SpecRingExtend == InitRing /\ [][NextRingExtend]_vars

MaxRingOpsCap == 3
\* samples offered to one ring buffer in a run
MaxRingOpsTotal == 3
\* largest physical store a run lets resize build
MaxRingStore == 4

\* how the per-sample shape of a block passed to extend relates to
\* sample_shape: the same, different but broadcastable by numpy (a (1,) row
\* into a (3,) row), or not broadcastable
ShapeKinds == {"same", "broadcastable", "incompatible"}

\* the buffer before a call, with the call's name, its numeric argument (None
\* when it has none) and the shape kind of its block
RingSnapshot(call, arg, shape) ==
    [content |-> RingContent, length |-> r_length, zero_index |-> r_zero_index,
     max_length |-> r_max_length, size |-> RingSize,
     call |-> call, arg |-> arg, shape |-> shape]

\* the logical window after the last operation, as it was before it
RingUnchanged ==
    /\ RingContent = r_pre.content
    /\ r_length = r_pre.length
    /\ r_zero_index = r_pre.zero_index
    /\ r_max_length = r_pre.max_length

\* RingArrayBuffer.delete(indices), lines 151-157, for a set S of positions:
\* the kept samples are rewritten from slot 0; np.delete rejects a position
\* outside the logical content
ring_delete(S) ==
    LET kept == np_delete(RingContent, S)
    IN  IF \E i \in S : i < 0 \/ i >= r_length
           THEN [err |-> "IndexError", data |-> r_data, length |-> r_length,
                 zero_index |-> r_zero_index]
           ELSE [err |-> "ok",
                 data |-> [i \in DOMAIN r_data |->
                              IF i < Len(kept) THEN kept[i + 1] ELSE r_data[i]],
                 length |-> Len(kept), zero_index |-> 0]

\* RingArrayBuffer.read(length, delete_data, reduce_length), lines 107-121;
\* self[:length] indexes with an index array, so the block is a copy
ring_read(length, delete_data, reduce_length) ==
    LET same == [data |-> r_data, length |-> r_length, zero_index |-> r_zero_index]
    IN  IF length = None
           THEN [err |-> "ok", ret |-> RingContent, data |-> r_data,
                 length |-> IF delete_data THEN 0 ELSE r_length,
                 zero_index |-> IF delete_data THEN 0 ELSE r_zero_index]
        ELSE IF length > r_length /\ ~reduce_length
           THEN [err |-> "ValueError", ret |-> <<>>, data |-> r_data,
                 length |-> r_length, zero_index |-> r_zero_index]
        ELSE LET n == Min(length, r_length)
                 d == IF delete_data THEN ring_delete(0..(n - 1)) ELSE same
             IN  [err |-> "ok", ret |-> SubSeq(RingContent, 1, n), data |-> d.data,
                  length |-> d.length, zero_index |-> d.zero_index]

\* RingArrayBuffer.roll(shift), lines 171-172: the modulus is len(self), which
\* is 0 for an empty buffer
ring_roll(shift) ==
    IF r_length = 0 THEN [err |-> "ZeroDivisionError", zero_index |-> r_zero_index]
    ELSE [err |-> "ok", zero_index |-> (r_zero_index + shift) % r_length]

\* RingArrayBuffer.resize(size, fill_value=0), lines 159-169: n is the logical
\* length; a smaller size deletes the samples from size on, any other size
\* appends size - n slots to the store; line 169 then reads the undefined
\* name data and raises NameError
ring_resize(size) ==
    LET n == r_length
        d == ring_delete(size..(n - 1))
        P == RingSize
    IN  IF size < n
           THEN [err |-> "NameError", data |-> d.data, length |-> d.length,
                 zero_index |-> d.zero_index]
           ELSE [err |-> "NameError",
                 data |-> [i \in 0..(P + size - n - 1) |->
                              IF i < P THEN r_data[i] ELSE 0],
                 length |-> r_length, zero_index |-> r_zero_index]

\* RingArrayBuffer.__init__, lines 64-86: a zeroed store of max_length slots,
\* or the data array given, which then is the full content
InitRingOps ==
    /\ r_max_length \in 1..MaxRingOpsCap
    /\ \E given \in BOOLEAN :
          /\ r_data = [i \in 0..(r_max_length - 1) |-> IF given THEN i + 1 ELSE 0]
          /\ r_length = (IF given THEN r_max_length ELSE 0)
          /\ r_hist = (IF given THEN NewBlock(0, r_max_length) ELSE <<>>)
    /\ r_zero_index = 0
    /\ r_op = "init"
    /\ r_pre = RingSnapshot("init", None, "same")
    /\ r_ret = <<>>
    /\ StreamerIdle /\ ArrayIdle /\ ChunkIdle /\ BoardIdle /\ UpdaterIdle /\ SamplingIdle /\ IndexIdle /\ RaceIdle

\* a call of extend(value) with a block of the next l samples
RingOpsExtend ==
    /\ \E l \in 0..(r_max_length + 1), shape \in ShapeKinds :
          /\ Len(r_hist) + l <= MaxRingOpsTotal
          /\ r_pre' = RingSnapshot("extend", l, shape)
          /\ IF shape = "incompatible"
                THEN /\ r_op' = "extend_error"
                     /\ UNCHANGED <<r_data, r_zero_index, r_length, r_max_length, r_hist>>
                ELSE ring_extend(NewBlock(Len(r_hist), l))
    /\ r_ret' = <<>>
    /\ NotRing

\* RingArrayBuffer.append(value), lines 127-128: extend([value])
RingOpsAppend ==
    /\ Len(r_hist) + 1 <= MaxRingOpsTotal
    /\ r_pre' = RingSnapshot("append", 1, "same")
    /\ ring_extend(NewBlock(Len(r_hist), 1))
    /\ r_ret' = <<>>
    /\ NotRing

\* a call of read(length, delete_data, reduce_length)
RingOpsRead ==
    /\ \E length \in {None} \cup (0..(r_max_length + 1)), delete_data \in BOOLEAN,
          reduce_length \in BOOLEAN :
          LET r == ring_read(length, delete_data, reduce_length)
          IN  /\ r_pre' = RingSnapshot(IF delete_data THEN "read" ELSE "peek", length,
                                       IF reduce_length THEN "reduce" ELSE "exact")
              /\ r_op' = (IF r.err = "ok" THEN "read" ELSE "read_error")
              /\ r_ret' = r.ret
              /\ r_data' = r.data
              /\ r_length' = r.length
              /\ r_zero_index' = r.zero_index
    /\ UNCHANGED <<r_max_length, r_hist>>
    /\ NotRing

\* a call of delete(indices) with a list of distinct positions
RingOpsDelete ==
    /\ \E S \in SUBSET (0..(MaxRingOpsCap - 1)) :
          LET d == ring_delete(S)
          IN  /\ r_pre' = RingSnapshot("delete", Cardinality(S), "same")
              /\ r_op' = (IF d.err = "ok" THEN "delete" ELSE "delete_error")
              /\ r_data' = d.data
              /\ r_length' = d.length
              /\ r_zero_index' = d.zero_index
    /\ r_ret' = <<>>
    /\ UNCHANGED <<r_max_length, r_hist>>
    /\ NotRing

\* RingArrayBuffer.clear(), lines 123-125
RingOpsClear ==
    /\ r_pre' = RingSnapshot("clear", None, "same")
    /\ r_op' = "clear"
    /\ r_zero_index' = 0
    /\ r_length' = 0
    /\ r_ret' = <<>>
    /\ UNCHANGED <<r_data, r_max_length, r_hist>>
    /\ NotRing

\* a call of roll(shift)
RingOpsRoll ==
    /\ \E shift \in (0 - MaxRingOpsCap)..MaxRingOpsCap :
          LET r == ring_roll(shift)
          IN  /\ r_pre' = RingSnapshot("roll", shift, "same")
              /\ r_op' = (IF r.err = "ok" THEN "roll" ELSE "roll_error")
              /\ r_zero_index' = r.zero_index
    /\ r_ret' = <<>>
    /\ UNCHANGED <<r_data, r_length, r_max_length, r_hist>>
    /\ NotRing

\* a call of resize(size)
RingOpsResize ==
    /\ \E size \in 0..MaxRingStore :
          /\ RingSize + Max(0, size - r_length) <= MaxRingStore
          /\ LET r == ring_resize(size)
             IN  /\ r_pre' = RingSnapshot("resize", size, "same")
                 /\ r_op' = (IF r.err = "ok" THEN "resize" ELSE "resize_error")
                 /\ r_data' = r.data
                 /\ r_length' = r.length
                 /\ r_zero_index' = r.zero_index
    /\ r_ret' = <<>>
    /\ UNCHANGED <<r_max_length, r_hist>>
    /\ NotRing

NextRingOps ==
    \/ RingOpsExtend
    \/ RingOpsAppend
    \/ RingOpsRead
    \/ RingOpsDelete
    \/ RingOpsClear
    \/ RingOpsRoll
    \/ RingOpsResize

SpecRingOps == InitRingOps /\ [][NextRingOps]_vars

(***************************************************************************)
(* ArrayBuffer: growable store with doubling growth.                       *)
(***************************************************************************)
\* ArrayBuffer.default_capacity
default_capacity == 16
\* largest capacity / max_length / initial data length passed to the constructor
MaxArrayCap == 2
\* samples offered to one ArrayBuffer in a run
MaxArrayTotal == 4
\* longest block passed to extend, largest position passed to delete
MaxArrayBlock == 2

\* what np.empty may leave in a fresh slot
Unspecified == {0, -9}

\* the logical content: to_array(), data[:length]
ArrContent == SubSeq(a_data, 1, Min(a_length, Len(a_data)))

\* the constructor argument data: None, or an array of rows
NoData == [given |-> FALSE, rows |-> <<>>]
DataOf(d) == [given |-> TRUE, rows |-> [i \in 1..d |-> i]]

\* _initialize_buffer, lines 108-121
initialize_buffer(data, capacity, g) ==
    LET cap == IF capacity # None THEN capacity ELSE default_capacity
    IN  IF ~data.given
           THEN [data |-> [i \in 1..cap |-> g], capacity |-> cap]
           ELSE [data |-> data.rows, capacity |-> Max(Len(data.rows), cap)]

\* the buffer before a call, with the call's name, its numeric argument (None
\* when it has none) and a flag of the call (the shape kind of a block, the
\* reduce_length of a read)
ArrSnapshot(call, arg, flag) ==
    [content |-> ArrContent, capacity |-> a_capacity, length |-> a_length,
     call |-> call, arg |-> arg, flag |-> flag]

\* the block a read returned, as the caller holds it: a view of the store
\* (attached) or of an array the buffer no longer uses (vals); asked and
\* consumed are the read's arguments, expect the n oldest samples at the call
NoView == [attached |-> FALSE, n |-> 0, vals |-> <<>>, expect |-> <<>>,
           asked |-> None, consumed |-> FALSE]

\* the values the caller sees in the block the last read returned
ViewNow == IF a_view.attached THEN SubSeq(a_data, 1, a_view.n) ELSE a_view.vals

\* self.data is rebound to a new array: an earlier view keeps the old one
Detached == IF a_view.attached
               THEN [a_view EXCEPT !.attached = FALSE, !.vals = SubSeq(a_data, 1, a_view.n)]
               ELSE a_view

\* a resize that adds the requested capacity instead of the difference
array_resize_addall(data, cap, c, g) ==
    IF a_max_length # None /\ c > a_max_length
       THEN [err |-> "ValueError", data |-> data, capacity |-> cap]
    ELSE IF c - cap < 0
       THEN [err |-> "RuntimeError", data |-> data, capacity |-> cap]
    ELSE [err |-> "ok", data |-> data \o [i \in 1..(c - cap) |-> g],
          capacity |-> cap + c]

\* ArrayBuffer.resize(capacity), lines 199-210
array_resize(data, cap, c, g) ==
    IF a_max_length # None /\ c > a_max_length
       THEN [err |-> "ValueError", data |-> data, capacity |-> cap]
    ELSE IF c - cap < 0
       THEN [err |-> "RuntimeError", data |-> data, capacity |-> cap]
    ELSE [err |-> "ok", data |-> data \o [i \in 1..(c - cap) |-> g],
          capacity |-> cap + (c - cap)]

\* append, lines 159-161: the capacity asked for when the buffer is full
array_grow_target(cap, max) ==
    IF max # None THEN Min(2 * cap, max) ELSE 2 * cap

\* ArrayBuffer.append(value), lines 157-166
array_append(value, g) ==
    LET full == a_length = a_capacity
        target == array_grow_target(a_capacity, a_max_length)
        same == [err |-> "ok", data |-> a_data, capacity |-> a_capacity]
    IN  IF full /\ a_max_length # None /\ a_capacity = target
           THEN [err |-> "ValueError", data |-> a_data, capacity |-> a_capacity,
                 length |-> a_length, rebound |-> FALSE]
           ELSE LET r == IF full THEN array_resize(a_data, a_capacity, target, g) ELSE same
                IN  IF r.err # "ok"
                       THEN [err |-> r.err, data |-> a_data, capacity |-> a_capacity,
                             length |-> a_length, rebound |-> FALSE]
                    ELSE IF a_length >= Len(r.data)
                       THEN [err |-> "IndexError", data |-> r.data,
                             capacity |-> r.capacity, length |-> a_length,
                             rebound |-> full]
                    ELSE [err |-> "ok",
                          data |-> [r.data EXCEPT ![a_length + 1] = value],
                          capacity |-> r.capacity, length |-> a_length + 1,
                          rebound |-> full]

\* extend, lines 177-178: double the capacity until new_size fits
RECURSIVE Doubled(_, _)
Doubled(capacity, new_size) ==
    IF new_size > capacity THEN Doubled(2 * capacity, new_size) ELSE capacity

\* extend, line 180: self.data[size:new_size] = value; numpy clips the slice to
\* the store and broadcasts a one-row value
slice_assign(data, size, value) ==
    LET l == Len(value)
        k == Max(0, Min(Len(data), size + l) - size)
    IN  IF k = l
           THEN [err |-> "ok",
                 data |-> [i \in 1..Len(data) |->
                              IF size < i /\ i <= size + l THEN value[i - size] ELSE data[i]]]
        ELSE IF l = 1
           THEN [err |-> "ok",
                 data |-> [i \in 1..Len(data) |->
                              IF size < i /\ i <= size + k THEN value[1] ELSE data[i]]]
        ELSE [err |-> "ValueError", data |-> data]

\* ArrayBuffer.extend(value), lines 168-181
array_extend(value, g) ==
    LET size == a_length
        new_size == size + Len(value)
        same == [err |-> "ok", data |-> a_data, capacity |-> a_capacity]
        r == IF new_size > a_capacity
                THEN array_resize(a_data, a_capacity, Doubled(a_capacity, new_size), g)
                ELSE same
    IN  IF r.err # "ok"
           THEN [err |-> r.err, data |-> a_data, capacity |-> a_capacity,
                 length |-> a_length, rebound |-> FALSE]
           ELSE LET w == slice_assign(r.data, size, value)
                IN  IF w.err # "ok"
                       THEN [err |-> w.err, data |-> r.data, capacity |-> r.capacity,
                             length |-> a_length, rebound |-> new_size > a_capacity]
                       ELSE [err |-> "ok", data |-> w.data, capacity |-> r.capacity,
                             length |-> new_size, rebound |-> new_size > a_capacity]

\* ArrayBuffer.delete(index) for a list or slice of distinct positions S,
\* lines 183-194; a position outside [0, length) raises IndexError in _index,
\* one outside the store raises it in np.delete
array_delete(S) ==
    LET n == Cardinality(S)
        P == Len(a_data)
    IN  IF \E i \in S : i < 0 \/ i >= a_length \/ i >= P
           THEN [err |-> "IndexError", data |-> a_data, length |-> a_length]
        ELSE IF n = 0
           THEN [err |-> "ok", data |-> a_data, length |-> a_length]
        ELSE [err |-> "ok",
              data |-> np_delete(a_data, S) \o SubSeq(a_data, P - n + 1, P),
              length |-> a_length - n]

\* ArrayBuffer.__init__, lines 88-106: constructed with any of max_length,
\* capacity and data
InitArray ==
    /\ a_max_length \in {None} \cup (1..(MaxArrayCap + 1))
    /\ \E capacity \in 1..MaxArrayCap, d \in {None} \cup (0..(MaxArrayCap - 1)),
          g \in Unspecified :
          LET data == IF d = None THEN NoData ELSE DataOf(d)
              b == initialize_buffer(data, capacity, g)
          IN  /\ a_data = b.data
              /\ a_capacity = b.capacity
              /\ a_length = (IF d = None THEN 0 ELSE d)
              /\ a_next = (IF d = None THEN 1 ELSE d + 1)
    /\ a_op = "init"
    /\ a_pre = [content |-> <<>>, capacity |-> a_capacity, length |-> a_length,
                call |-> "init", arg |-> None, flag |-> "same"]
    /\ a_view = NoView
    /\ StreamerIdle /\ RingIdle /\ ChunkIdle /\ BoardIdle /\ UpdaterIdle /\ SamplingIdle /\ IndexIdle /\ RaceIdle

NotArray == UNCHANGED <<streamerVars, ringVars, chunkVars, boardVars, updaterVars, samplingVars,
        indexVars,
        raceVars>>

\* a call of append(value) with the next sample
ArrayAppendUpTo(limit) ==
    /\ a_next <= limit
    /\ \E g \in Unspecified :
          LET r == array_append(a_next, g)
          IN  /\ a_data' = r.data
              /\ a_capacity' = r.capacity
              /\ a_length' = r.length
              /\ a_view' = (IF r.rebound THEN Detached ELSE a_view)
              /\ a_op' = (IF r.err = "ok" THEN "append" ELSE "append_error")
              /\ a_next' = (IF r.err = "ok" THEN a_next + 1 ELSE a_next)
    /\ a_pre' = ArrSnapshot("append", None, "same")
    /\ UNCHANGED a_max_length
    /\ NotArray

ArrayAppend == ArrayAppendUpTo(MaxArrayTotal)

\* a call of extend(value) with a block of the next l samples; a block whose
\* per-sample shape is not sample_shape raises ValueError at lines 171-172
ArrayExtend ==
    /\ \E l \in 0..MaxArrayBlock, g \in Unspecified, shape \in {"same", "mismatch"} :
          /\ a_next + l - 1 <= MaxArrayTotal
          /\ a_pre' = ArrSnapshot("extend", l, shape)
          /\ IF shape = "mismatch"
                THEN /\ a_op' = "extend_error"
                     /\ UNCHANGED <<a_data, a_capacity, a_length, a_view, a_next>>
                ELSE LET r == array_extend(NewBlock(a_next - 1, l), g)
                     IN  /\ a_data' = r.data
                         /\ a_capacity' = r.capacity
                         /\ a_length' = r.length
                         /\ a_view' = (IF r.rebound THEN Detached ELSE a_view)
                         /\ a_op' = (IF r.err = "ok" THEN "extend" ELSE "extend_error")
                         /\ a_next' = (IF r.err = "ok" THEN a_next + l ELSE a_next)
    /\ UNCHANGED a_max_length
    /\ NotArray

\* ArrayBuffer.read(length, delete_data, reduce_length), lines 132-146; the
\* block returned is self[:length], a basic slice of self.data
ArrayRead ==
    /\ \E length \in {None} \cup (0..(MaxArrayBlock + 1)), delete_data \in BOOLEAN,
          reduce_length \in BOOLEAN :
          LET n == IF length = None \/ (length > a_length /\ reduce_length)
                      THEN a_length ELSE length
              vn == Min(n, Len(a_data))
              view == [attached |-> TRUE, n |-> vn, vals |-> <<>>,
                       expect |-> SubSeq(ArrContent, 1, vn),
                       asked |-> length, consumed |-> delete_data]
              d == array_delete(0..(n - 1))
          IN  /\ a_pre' = ArrSnapshot(IF delete_data THEN "read" ELSE "peek", length,
                                      IF reduce_length THEN "reduce" ELSE "exact")
              /\ IF length # None /\ length > a_length /\ ~reduce_length
                    THEN /\ a_op' = "read_error"
                         /\ a_view' = NoView
                         /\ UNCHANGED <<a_data, a_length>>
                 ELSE IF ~delete_data
                    THEN /\ a_op' = "read_peek"
                         /\ a_view' = view
                         /\ UNCHANGED <<a_data, a_length>>
                 ELSE IF length = None
                    THEN /\ a_op' = "read_delete"
                         /\ a_view' = view
                         /\ a_length' = 0
                         /\ UNCHANGED a_data
                 ELSE IF d.err # "ok"
                    THEN /\ a_op' = "read_error"
                         /\ a_view' = NoView
                         /\ UNCHANGED <<a_data, a_length>>
                 ELSE /\ a_op' = "read_delete"
                      /\ a_view' = view
                      /\ a_data' = d.data
                      /\ a_length' = d.length
    /\ UNCHANGED <<a_capacity, a_max_length, a_next>>
    /\ NotArray

\* a call of delete(index) with a list of distinct positions
ArrayDelete ==
    /\ \E S \in SUBSET (0..MaxArrayBlock) :
          LET d == array_delete(S)
          IN  /\ a_data' = d.data
              /\ a_length' = d.length
              /\ a_op' = (IF d.err = "ok" THEN "delete" ELSE "delete_error")
              /\ a_pre' = ArrSnapshot("delete", Cardinality(S), "same")
    /\ a_view' = NoView
    /\ UNCHANGED <<a_capacity, a_max_length, a_next>>
    /\ NotArray

\* ArrayBuffer.clear(), lines 196-197
ArrayClear ==
    /\ a_length' = 0
    /\ a_op' = "clear"
    /\ a_pre' = ArrSnapshot("clear", None, "same")
    /\ a_view' = NoView
    /\ UNCHANGED <<a_data, a_capacity, a_max_length, a_next>>
    /\ NotArray

\* a call of resize(capacity)
ArrayResize ==
    /\ \E c \in 0..(MaxArrayCap + 1), g \in Unspecified :
          LET r == array_resize(a_data, a_capacity, c, g)
          IN  /\ a_data' = r.data
              /\ a_capacity' = r.capacity
              /\ a_view' = NoView
              /\ a_op' = (IF r.err = "ok" THEN "resize" ELSE "resize_error")
              /\ a_pre' = ArrSnapshot("resize", c, "same")
    /\ UNCHANGED <<a_length, a_max_length, a_next>>
    /\ NotArray

NextArray ==
    \/ ArrayAppend
    \/ ArrayExtend
    \/ ArrayRead
    \/ ArrayDelete
    \/ ArrayClear
    \/ ArrayResize

SpecArray == InitArray /\ [][NextArray]_vars

\* C4: read(n, delete_data=True) with n <= logical_length returns the n
\* oldest samples as they were before the call and leaves the remaining
\* samples in order; the returned block keeps its values through the removal
\* and through later appends.
C4_ReadReturnsOldest ==
    (a_view.consumed /\ a_view.asked # None /\ a_view.asked <= Len(a_view.expect)) =>
        /\ ViewNow = a_view.expect
        /\ a_op = "read_delete" =>
              ArrContent = SubSeq(a_pre.content, a_view.n + 1, Len(a_pre.content))

\* C6: in every reachable state logical_length <= capacity and, when
\* max_length is set, capacity <= max_length and logical_length <= max_length.
C6_WithinBounds ==
    /\ a_length <= a_capacity
    /\ a_max_length # None => (a_capacity <= a_max_length /\ a_length <= a_max_length)

\* C7: append on a full buffer grows the capacity to min(2 x capacity,
\* max_length) (2 x capacity without max_length) and stores the sample; when
\* that target does not exceed the capacity the append fails and length,
\* capacity and contents stay as they were; append on a buffer that is not
\* full never changes the capacity.
C7_AppendGrowth ==
    a_op \in {"append", "append_error"} =>
        LET target == IF a_max_length = None THEN 2 * a_pre.capacity
                      ELSE Min(2 * a_pre.capacity, a_max_length)
        IN  IF a_pre.length = a_pre.capacity
               THEN IF target > a_pre.capacity
                       THEN /\ a_op = "append"
                            /\ a_capacity = target
                            /\ a_length = a_pre.length + 1
                            /\ a_data[a_length] = a_next - 1
                            /\ SubSeq(ArrContent, 1, Len(a_pre.content)) = a_pre.content
                       ELSE /\ a_op = "append_error"
                            /\ a_capacity = a_pre.capacity
                            /\ a_length = a_pre.length
                            /\ ArrContent = a_pre.content
               ELSE a_capacity = a_pre.capacity

\* an append on a full buffer whose doubling was capped by max_length
C7_Witness ==
    /\ a_op = "append"
    /\ a_pre.length = a_pre.capacity
    /\ a_max_length # None
    /\ a_capacity = a_max_length
    /\ a_capacity < 2 * a_pre.capacity
    /\ a_length = a_pre.capacity + 1

\* C30: in every reachable state the capacity field equals the number of
\* rows of the store, also for a buffer constructed from a data array shorter
\* than the capacity.
C30_CapacityIsAllocated ==
    a_capacity = Len(a_data)

\* the outcome of a call as the caller can observe it: failure, or the
\* length, capacity and logical content it leaves
ArrOutcome(r) ==
    IF r.err # "ok" THEN <<"fail">>
    ELSE <<"ok", r.length, r.capacity, SubSeq(r.data, 1, Min(r.length, Len(r.data)))>>

\* C28: in every reachable state append(x) and extend([x]) have the same
\* outcome: both succeed and leave the same length, contents and capacity, or
\* both fail; and extend of a block succeeds whenever logical_length plus the
\* block's length does not exceed max_length.
C28_AppendIsExtendOne ==
    \A g \in Unspecified :
        /\ ArrOutcome(array_append(a_next, g)) = ArrOutcome(array_extend(<<a_next>>, g))
        /\ \A l \in 0..MaxArrayBlock :
              (a_max_length # None /\ a_length + l <= a_max_length) =>
                  array_extend(NewBlock(a_next - 1, l), g).err = "ok"

(***************************************************************************)
(* ArrayBuffer created with the default capacity, driven by append only.   *)
(***************************************************************************)
\* appends made to a default-capacity buffer in a run
MaxAppendTotal == 33
\* doublings looked at when testing for default_capacity x 2^k
MaxDoublings == 4

\* the values of max_length tried with the default capacity
DefaultMaxLengths == {None, 8, 24, 32, 40}

InitDefaultArray ==
    /\ a_max_length \in DefaultMaxLengths
    /\ \E g \in Unspecified :
          LET b == initialize_buffer(NoData, None, g)
          IN  /\ a_data = b.data
              /\ a_capacity = b.capacity
    /\ a_length = 0
    /\ a_next = 1
    /\ a_op = "init"
    /\ a_pre = [content |-> <<>>, capacity |-> a_capacity, length |-> a_length,
                call |-> "init", arg |-> None, flag |-> "same"]
    /\ a_view = NoView
    /\ StreamerIdle /\ RingIdle /\ ChunkIdle /\ BoardIdle /\ UpdaterIdle /\ SamplingIdle /\ IndexIdle /\ RaceIdle

DefaultAppend == ArrayAppendUpTo(MaxAppendTotal)

NextDefaultArray == DefaultAppend

SpecDefaultArray == InitDefaultArray /\ [][NextDefaultArray]_vars

IsDefaultTimesPowerOfTwo(c) == \E k \in 0..MaxDoublings : c = default_capacity * 2^k

\* C8 as stated: after each successful append to a buffer created with the
\* default capacity, with or without max_length, the capacity is the default
\* capacity times a power of two and capacity >= logical_length.
C8_PowerOfTwo ==
    a_op = "append" =>
        /\ IsDefaultTimesPowerOfTwo(a_capacity)
        /\ a_capacity >= a_length

\* C8 amended: the capacity is the default capacity times a power of two, or
\* max_length itself once a doubling has been capped by it, and
\* capacity >= logical_length.
C8_PowerOfTwoOrCap ==
    a_op = "append" =>
        /\ \/ IsDefaultTimesPowerOfTwo(a_capacity)
           \/ a_max_length # None /\ a_capacity = a_max_length
        /\ a_capacity >= a_length
        /\ a_max_length = None => IsDefaultTimesPowerOfTwo(a_capacity)

\* the 17th append with max_length = 24: the capacity grew from 16 to 24
C8_Witness ==
    /\ a_op = "append"
    /\ a_max_length = 24
    /\ a_capacity = 24
    /\ a_length = 17

(***************************************************************************)
(* RingBuffer: a bounded deque of chunks with splitting reads.             *)
(***************************************************************************)
\* largest max_length (deque maxlen) tried
MaxChunks == 3
\* longest chunk passed to update
MaxChunkLen == 3
\* samples offered to one chunk buffer in a run
MaxChunkTotal == 6

\* np.concatenate(chunks, axis=0)
RECURSIVE Concatenate(_)
Concatenate(chunks) ==
    IF chunks = <<>> THEN <<>> ELSE Head(chunks) \o Concatenate(Tail(chunks))

\* array_len, lines 85-87: sum of the chunk lengths
array_len(chunks) == Len(Concatenate(chunks))

\* np.cumsum(lengths)[k-1]: samples in the first k chunks
cumsum(chunks, k) == array_len(SubSeq(chunks, 1, k))

\* an append that ignores maxlen
deque_append_unbounded(data, maxlen, value) == Append(data, value)

\* deque.append on a deque with maxlen: a full deque drops its leftmost item
deque_append(data, maxlen, value) ==
    IF maxlen = 0 THEN data
    ELSE IF Len(data) = maxlen THEN Append(Tail(data), value)
    ELSE Append(data, value)

\* a read_array that forgets to requeue the unconsumed remainder
chunk_read_array_noremainder(data, length) ==
    LET e == (CHOOSE k \in 1..Len(data) :
                 /\ length <= cumsum(data, k)
                 /\ \A j \in 1..(k - 1) : ~(length <= cumsum(data, j)))
        final_block == data[e]
        i == length - cumsum(data, e - 1)
    IN  [ret |-> Concatenate(SubSeq(data, 1, e - 1)) \o SubSeq(final_block, 1, i),
         data |-> SubSeq(data, e + 1, Len(data))]

\* read_array, lines 124-132, for a length within the available samples:
\* e - 1 whole chunks are popped, the e-th is split at i
chunk_read_array(data, length) ==
    LET e == (CHOOSE k \in 1..Len(data) :
                 /\ length <= cumsum(data, k)
                 /\ \A j \in 1..(k - 1) : ~(length <= cumsum(data, j)))
        final_block == data[e]
        i == length - cumsum(data, e - 1)
        rest == SubSeq(data, e + 1, Len(data))
    IN  [ret |-> Concatenate(SubSeq(data, 1, e - 1)) \o SubSeq(final_block, 1, i),
         data |-> IF i < Len(final_block)
                     THEN <<SubSeq(final_block, i + 1, Len(final_block))>> \o rest
                     ELSE rest]

\* the arguments of a read: length (None allowed), delete_data, reduce_length
NoArgs == [length |-> None, delete_data |-> FALSE, reduce_length |-> FALSE]

\* RingBuffer.__init__, lines 54-70: an empty deque with maxlen = max_length
InitChunk ==
    /\ q_maxlen \in 1..MaxChunks
    /\ q_data = <<>>
    /\ q_next = 1
    /\ q_op = "init"
    /\ q_pre = <<>>
    /\ q_ret = <<>>
    /\ q_args = NoArgs
    /\ StreamerIdle /\ RingIdle /\ ArrayIdle /\ BoardIdle /\ UpdaterIdle /\ SamplingIdle /\ IndexIdle /\ RaceIdle

NotChunk == UNCHANGED <<streamerVars, ringVars, arrayVars, boardVars, updaterVars, samplingVars,
        indexVars,
        raceVars>>

\* RingBuffer.update(value), lines 79-80, with a chunk of the next l samples
ChunkUpdate ==
    /\ \E l \in 0..MaxChunkLen :
          /\ q_next + l - 1 <= MaxChunkTotal
          /\ q_data' = deque_append(q_data, q_maxlen, NewBlock(q_next - 1, l))
          /\ q_next' = q_next + l
    /\ q_op' = "update"
    /\ q_pre' = q_data
    /\ q_ret' = <<>>
    /\ q_args' = NoArgs
    /\ UNCHANGED q_maxlen
    /\ NotChunk

\* RingBuffer.read_array(length, reduce_length), lines 113-133; length None
\* is to_array() followed by clear()
ChunkReadArray ==
    /\ \E length \in {None} \cup (0..(MaxChunkTotal + 1)), reduce_length \in BOOLEAN :
          LET total == array_len(q_data)
              n == IF length = None \/ (length > total /\ reduce_length)
                      THEN total ELSE length
          IN  /\ q_args' = [length |-> length, delete_data |-> TRUE,
                            reduce_length |-> reduce_length]
              /\ IF (n > total) \/ q_data = <<>>
                    THEN /\ q_op' = "read_array_error"
                         /\ q_ret' = <<>>
                         /\ UNCHANGED q_data
                    ELSE LET r == IF length = None
                                     THEN [ret |-> Concatenate(q_data), data |-> <<>>]
                                     ELSE chunk_read_array(q_data, n)
                         IN  /\ q_op' = "read_array"
                             /\ q_ret' = r.ret
                             /\ q_data' = r.data
    /\ q_pre' = q_data
    /\ UNCHANGED <<q_maxlen, q_next>>
    /\ NotChunk

\* RingBuffer.read(length, delete_data, reduce_length), lines 93-108: length
\* counts chunks; the chunks are returned as a list
ChunkRead ==
    /\ \E length \in {None} \cup (0..(MaxChunks + 1)),
          delete_data \in BOOLEAN, reduce_length \in BOOLEAN :
          LET n == IF length = None THEN Len(q_data)
                   ELSE IF length > Len(q_data) /\ reduce_length THEN Len(q_data)
                   ELSE length
          IN  /\ q_args' = [length |-> length, delete_data |-> delete_data,
                            reduce_length |-> reduce_length]
              /\ IF n > Len(q_data)
                    THEN /\ q_op' = "read_error"
                         /\ q_ret' = <<>>
                         /\ UNCHANGED q_data
                    ELSE /\ q_op' = "read"
                         /\ q_ret' = SubSeq(q_data, 1, n)
                         /\ q_data' = IF delete_data
                                         THEN SubSeq(q_data, n + 1, Len(q_data))
                                         ELSE q_data
    /\ q_pre' = q_data
    /\ UNCHANGED <<q_maxlen, q_next>>
    /\ NotChunk

NextChunk ==
    \/ ChunkUpdate
    \/ ChunkRead
    \/ ChunkReadArray

SpecChunk == InitChunk /\ [][NextChunk]_vars

C17_ChunkCountBounded ==
    q_op # "none" =>
        /\ Len(q_data) <= q_maxlen
        /\ (q_op = "update" /\ Len(q_pre) = q_maxlen) =>
              /\ Len(q_data) = q_maxlen
              /\ SubSeq(q_data, 1, q_maxlen - 1) = Tail(q_pre)
              /\ LET last == q_data[q_maxlen]
                 IN  last = NewBlock(q_next - 1 - Len(last), Len(last))

\* an update on a full buffer of two chunks that leaves more samples than
\* max_length in the buffer: the bound counts chunks, not samples
C17_Witness ==
    /\ q_op = "update"
    /\ q_maxlen = 2
    /\ Len(q_pre) = q_maxlen
    /\ Len(q_data) = q_maxlen
    /\ array_len(q_data) > q_maxlen

\* C15, ArrayBuffer.read: a read of more than is available
C15_ArrayOverRead ==
    (a_pre.call \in {"read", "peek"} /\ a_pre.arg # None /\ a_pre.arg > a_pre.length) =>
        IF a_pre.flag = "exact"
           THEN /\ a_op = "read_error"
                /\ ArrContent = a_pre.content /\ a_length = a_pre.length
           ELSE /\ a_op \in {"read_peek", "read_delete"}
                /\ ViewNow = a_pre.content
                /\ a_pre.call = "read" => a_length = 0

\* C15, RingArrayBuffer.read: a read of more than is available
C15_RingOverRead ==
    (r_pre.call \in {"read", "peek"} /\ r_pre.arg # None /\ r_pre.arg > r_pre.length) =>
        IF r_pre.shape = "exact"
           THEN r_op = "read_error" /\ RingUnchanged
           ELSE /\ r_op = "read"
                /\ r_ret = r_pre.content
                /\ r_pre.call = "read" => r_length = 0

\* C15, RingBuffer.read_array: a read of more than is available
C15_ChunkOverRead ==
    (q_op \in {"read_array", "read_array_error"}
        /\ q_args.length > array_len(q_pre)) =>
        IF ~q_args.reduce_length
           THEN q_op = "read_array_error" /\ q_data = q_pre
           ELSE /\ q_op = "read_array"
                /\ q_ret = Concatenate(q_pre)
                /\ array_len(q_data) = 0

\* C15: for each buffer variant a read that asks for more than is available
\* fails and leaves the buffer unchanged when reduce_length is false; when
\* reduce_length is true it returns everything available (an empty result
\* from an empty buffer) and, when consuming, leaves the buffer empty.
C15_OverRead ==
    /\ a_op # "none" => C15_ArrayOverRead
    /\ r_op # "none" => C15_RingOverRead
    /\ q_op # "none" => C15_ChunkOverRead

\* C16, ArrayBuffer: the structurally invalid calls are an append or extend
\* whose growth max_length blocks, an extend with a block of another
\* per-sample shape, and a resize to a smaller capacity
C16_ArrayInvalid ==
    \/ /\ a_pre.call = "append"
       /\ a_pre.length = a_pre.capacity
       /\ a_max_length # None
       /\ Min(2 * a_pre.capacity, a_max_length) <= a_pre.capacity
    \/ /\ a_pre.call = "extend"
       /\ \/ a_pre.flag = "mismatch"
          \/ /\ a_pre.length + a_pre.arg > a_pre.capacity
             /\ a_max_length # None
             /\ Doubled(a_pre.capacity, a_pre.length + a_pre.arg) > a_max_length
    \/ /\ a_pre.call = "resize"
       /\ a_pre.arg < a_pre.capacity

C16_ArrayRejected ==
    C16_ArrayInvalid =>
        /\ a_op \in {"append_error", "extend_error", "resize_error"}
        /\ ArrContent = a_pre.content
        /\ a_capacity = a_pre.capacity
        /\ a_length = a_pre.length

\* C16, RingArrayBuffer: the structurally invalid calls are an extend with a
\* block longer than the capacity or of another per-sample shape, and a
\* resize to a smaller capacity
C16_RingInvalid ==
    \/ /\ r_pre.call = "extend"
       /\ (r_pre.arg > r_pre.max_length \/ r_pre.shape # "same")
    \/ /\ r_pre.call = "resize"
       /\ r_pre.arg < r_pre.max_length

C16_RingRejected ==
    C16_RingInvalid =>
        /\ r_op \in {"extend_error", "resize_error"}
        /\ RingUnchanged

\* C16: every structurally invalid operation on ArrayBuffer and
\* RingArrayBuffer is reported as a failure and leaves logical_length,
\* capacity / max_length, zero_index and the contents unchanged.
C16_InvalidRejected ==
    /\ a_op # "none" => C16_ArrayRejected
    /\ r_op # "none" => C16_RingRejected

\* C19: the physical store of a RingArrayBuffer has max_length slots in
\* every reachable state, and no operation (extend, append, read, delete,
\* clear, roll, resize), succeeding or failing, changes the store size or
\* max_length.
C19_StoreFixed ==
    r_op # "none" =>
        /\ RingSize = r_max_length
        /\ r_op # "init" =>
              /\ RingSize = r_pre.size
              /\ r_max_length = r_pre.max_length

\* seq rotated left by k places
Rotate(seq, k) == [i \in 1..Len(seq) |-> seq[((i - 1 + k) % Len(seq)) + 1]]

\* the two sequences hold the same samples the same number of times
SameSamples(s, t) ==
    /\ Len(s) = Len(t)
    /\ \A i \in 1..Len(s) :
          Cardinality({j \in 1..Len(s) : s[j] = s[i]})
              = Cardinality({j \in 1..Len(t) : t[j] = s[i]})

\* the physical slots a logical window of L samples at zero_index z reads
WindowSlots(z, L, n) == {(z + i) % n : i \in 0..(L - 1)}

\* C20: roll(shift), for any integer shift and any logical length L with
\* 0 <= L <= capacity, yields a cyclic rotation of the same L samples: the
\* length and the multiset of logical samples are unchanged and no slot
\* outside the previous window becomes readable.
C20_RollRotates ==
    (r_op # "none" /\ r_pre.call = "roll") =>
        /\ r_op = "roll"
        /\ r_length = r_pre.length
        /\ SameSamples(RingContent, r_pre.content)
        /\ \E k \in 0..r_length : RingContent = Rotate(r_pre.content, k)
        /\ WindowSlots(r_zero_index, r_length, r_max_length)
              \subseteq WindowSlots(r_pre.zero_index, r_pre.length, r_pre.max_length)

(***************************************************************************)
(* Indexing: _index_for_length and __getitem__ of both array buffers.      *)
(***************************************************************************)
\* largest store tried
MaxIndexCap == 3
\* largest absolute value of an index or slice bound tried
MaxIndex == 2

\* a slice field left out (Python's None inside slice(...))
Absent == 99

\* slice.indices(length) as CPython computes it (step is never 0 here)
slice_indices(start, stop, step, length) ==
    LET st == IF step = Absent THEN 1 ELSE step
        lower == IF st > 0 THEN 0 ELSE 0 - 1
        upper == IF st > 0 THEN length ELSE length - 1
        clip(v) == IF v < 0 THEN Max(v + length, lower) ELSE Min(v, upper)
    IN  [start |-> IF start = Absent THEN (IF st < 0 THEN upper ELSE lower)
                   ELSE clip(start),
         stop  |-> IF stop = Absent THEN (IF st < 0 THEN lower ELSE upper)
                   ELSE clip(stop),
         step  |-> st]

\* the positions range(start, stop, step) runs through
slice_positions(s) ==
    LET count == IF s.step > 0
                    THEN (IF s.stop > s.start
                             THEN (s.stop - s.start + s.step - 1) \div s.step ELSE 0)
                    ELSE (IF s.start > s.stop
                             THEN (s.start - s.stop - s.step - 1) \div (0 - s.step) ELSE 0)
    IN  [k \in 1..count |-> s.start + (k - 1) * s.step]

\* numpy basic slicing data[slice(start, stop, step)] on a store of n rows:
\* the slice is resolved against n, negative bounds counting from the end
np_basic_slice(start, stop, step, n) ==
    slice_positions(slice_indices(start, stop, step, n))

\* _index_for_length, lines 67-72, for an int index: bounds check, then a
\* negative index has length added
index_for_length_int(i, length) ==
    IF ~(0 - length <= i /\ i < length) THEN [err |-> "IndexError", index |-> i]
    ELSE [err |-> "ok", index |-> IF i < 0 THEN length + i ELSE i]

\* ArrayBuffer.__getitem__, lines 148-152: a slice becomes
\* slice(*index.indices(length)) (line 65) and is handed to self.data[...]
array_getitem(index, length, capacity) ==
    IF index.kind = "int"
       THEN LET r == index_for_length_int(index.i, length)
            IN  IF r.err = "ok" THEN [err |-> "ok", slots |-> <<r.index>>]
                ELSE [err |-> r.err, slots |-> <<>>]
       ELSE LET s == slice_indices(index.start, index.stop, index.step, length)
            IN  [err |-> "ok",
                 slots |-> np_basic_slice(s.start, s.stop, s.step, capacity)]

\* RingArrayBuffer.__getitem__, lines 97-102: a slice becomes the index array
\* np.arange(length)[index] (line 63), every index is mapped to
\* (index + zero_index) % max_length
ring_getitem(index, length, zero_index, max_length) ==
    IF index.kind = "int"
       THEN LET r == index_for_length_int(index.i, length)
            IN  IF r.err = "ok"
                   THEN [err |-> "ok", slots |-> <<(r.index + zero_index) % max_length>>]
                   ELSE [err |-> r.err, slots |-> <<>>]
       ELSE LET P == np_basic_slice(index.start, index.stop, index.step, length)
            IN  [err |-> "ok",
                 slots |-> [k \in 1..Len(P) |-> (P[k] + zero_index) % max_length]]

IntIndex(i) == [kind |-> "int", i |-> i, start |-> Absent, stop |-> Absent, step |-> Absent]
SliceIndex(start, stop, step) ==
    [kind |-> "slice", i |-> Absent, start |-> start, stop |-> stop, step |-> step]

\* a buffer of either class in a state its operations reach: an ArrayBuffer
\* with length <= capacity; a ring that is full with any zero_index (after
\* wrapping extends) or partly filled with zero_index inside the window
\* (after roll)
InitIndex ==
    /\ x_kind \in {"array", "ring"}
    /\ x_capacity \in 1..MaxIndexCap
    /\ x_length \in 0..x_capacity
    /\ x_zero_index \in 0..(x_capacity - 1)
    /\ x_kind = "array" => x_zero_index = 0
    /\ (x_kind = "ring" /\ x_length < x_capacity) => x_zero_index < Max(x_length, 1)
    /\ x_index = IntIndex(0)
    /\ x_ret = <<>>
    /\ x_op = "init"
    /\ StreamerIdle /\ RingIdle /\ ArrayIdle /\ ChunkIdle /\ BoardIdle /\ UpdaterIdle /\ SamplingIdle /\ RaceIdle

NotIndex == UNCHANGED <<streamerVars, ringVars, arrayVars, chunkVars, boardVars,
                        updaterVars, samplingVars,
        raceVars>>

\* __getitem__ of the class at hand
getitem(index) ==
    IF x_kind = "array"
       THEN array_getitem(index, x_length, x_capacity)
       ELSE ring_getitem(index, x_length, x_zero_index, x_capacity)

\* buffer[i] for an int i: nothing of the buffer is assigned
IndexGetInt ==
    /\ \E i \in (0 - MaxIndex - 1)..(MaxIndex + 1) :
          LET r == getitem(IntIndex(i))
          IN  /\ x_op' = (IF r.err = "ok" THEN "getitem" ELSE "index_error")
              /\ x_ret' = r.slots
              /\ x_index' = IntIndex(i)
    /\ UNCHANGED <<x_kind, x_capacity, x_length, x_zero_index>>
    /\ NotIndex

\* buffer[start:stop:step]: nothing of the buffer is assigned
IndexGetSlice ==
    /\ \E start \in {Absent} \cup ((0 - MaxIndex)..MaxIndex),
          stop \in {Absent} \cup ((0 - MaxIndex)..MaxIndex),
          step \in {Absent, 1, 2, 0 - 1, 0 - 2} :
          LET r == getitem(SliceIndex(start, stop, step))
          IN  /\ x_op' = (IF r.err = "ok" THEN "getitem" ELSE "index_error")
              /\ x_ret' = r.slots
              /\ x_index' = SliceIndex(start, stop, step)
    /\ UNCHANGED <<x_kind, x_capacity, x_length, x_zero_index>>
    /\ NotIndex

NextIndex ==
    \/ IndexGetInt
    \/ IndexGetSlice

SpecIndex == InitIndex /\ [][NextIndex]_vars

\* C21: with logical length L, an int index i in [-L, L) reads the logical
\* sample i mod L (physical slot (zero_index + i mod L) mod capacity), an
\* int index outside [-L, L) raises an index error, and a slice never reads
\* a slot outside the logical window; the buffer is never changed.
C21_IndexResolved ==
    x_op \in {"getitem", "index_error"} =>
        /\ x_index.kind = "int" =>
              IF 0 - x_length <= x_index.i /\ x_index.i < x_length
                 THEN /\ x_op = "getitem"
                      /\ x_ret = <<(x_zero_index + (x_index.i % x_length)) % x_capacity>>
                 ELSE x_op = "index_error" /\ x_ret = <<>>
        /\ x_index.kind = "slice" =>
              /\ x_op = "getitem"
              /\ \A k \in 1..Len(x_ret) :
                    x_ret[k] \in WindowSlots(x_zero_index, x_length, x_capacity)

(***************************************************************************)
(* One writer context in extend() (Microphone.stream_callback ->           *)
(* buffer.update) and one reader context in to_array(), without a lock.    *)
(***************************************************************************)
\* largest initial capacity / max_length tried
MaxRaceCap == 3
\* longest block passed to extend
MaxRaceBlock == 2
\* samples offered to one buffer in a run
MaxRaceTotal == 4

\* to_array(): self[:] of the class at hand, read from the fields as they are
RaceContent ==
    IF w_kind = "ring"
       THEN [i \in 1..w_length |-> w_data[((i - 1) + w_zero_index) % w_capacity]]
       ELSE [i \in 1..w_length |-> w_data[i - 1]]

\* what extend(value) is to leave as logical content: the ring keeps the
\* newest max_length samples, the ArrayBuffer everything
RaceExpected(value) ==
    IF w_kind = "ring"
       THEN LastN(RaceContent \o value, Min(w_length + Len(value), w_capacity))
       ELSE RaceContent \o value

\* __init__ of either class: an empty buffer
InitRace ==
    /\ w_kind \in {"ring", "array"}
    /\ w_capacity \in 1..MaxRaceCap
    /\ w_data = [i \in 0..(w_capacity - 1) |-> 0]
    /\ w_length = 0
    /\ w_zero_index = 0
    /\ w_next = 1
    /\ w_pc = "idle"
    /\ w_local = <<>>
    /\ w_before = <<>>
    /\ w_after = <<>>
    /\ w_seen = <<>>
    /\ w_op = "init"
    /\ StreamerIdle /\ RingIdle /\ ArrayIdle /\ ChunkIdle /\ BoardIdle /\ UpdaterIdle /\ SamplingIdle /\ IndexIdle

NotRace == UNCHANGED <<streamerVars, ringVars, arrayVars, chunkVars, boardVars,
                       updaterVars, samplingVars, indexVars>>

\* extend(value) is entered: RingArrayBuffer lines 131-138, ArrayBuffer lines
\* 169-176; the locals are computed from the fields
RaceBegin ==
    /\ w_pc = "idle"
    /\ \E l \in 0..MaxRaceBlock :
          /\ w_next + l - 1 <= MaxRaceTotal
          /\ w_kind = "ring" => l <= w_capacity
          /\ LET value == NewBlock(w_next - 1, l)
                 s == IF w_kind = "ring" THEN (w_zero_index + w_length) % w_capacity
                      ELSE w_length
                 capacity == IF w_kind = "ring" THEN w_capacity
                             ELSE Doubled(w_capacity, w_length + l)
             IN  /\ w_local' = [value |-> value, length |-> w_length, s |-> s,
                                e |-> s + l, capacity |-> capacity]
                 /\ w_pc' = (IF capacity > w_capacity THEN "resize_data" ELSE "write")
                 /\ w_before' = RaceContent
                 /\ w_after' = RaceExpected(value)
          /\ w_next' = w_next + l
    /\ w_op' = "begin"
    /\ UNCHANGED <<w_kind, w_data, w_capacity, w_length, w_zero_index, w_seen>>
    /\ NotRace

\* ArrayBuffer.resize, lines 208-209: self.data is rebound to a longer array
\* whose new rows come from np.empty
RaceResizeData ==
    /\ w_pc = "resize_data"
    /\ \E g \in Unspecified :
          w_data' = [i \in 0..(w_local.capacity - 1) |->
                        IF i < w_capacity THEN w_data[i] ELSE g]
    /\ w_pc' = "resize_capacity"
    /\ w_op' = "resize_data"
    /\ UNCHANGED <<w_kind, w_capacity, w_length, w_zero_index, w_next, w_local,
                   w_before, w_after, w_seen>>
    /\ NotRace

\* ArrayBuffer.resize, line 210: self.capacity += add_capacity
RaceResizeCapacity ==
    /\ w_pc = "resize_capacity"
    /\ w_capacity' = w_local.capacity
    /\ w_pc' = "write"
    /\ w_op' = "resize_capacity"
    /\ UNCHANGED <<w_kind, w_data, w_length, w_zero_index, w_next, w_local,
                   w_before, w_after, w_seen>>
    /\ NotRace

\* the store is written: RingArrayBuffer lines 140-143 (up to the end of the
\* store when the block wraps), ArrayBuffer line 180
RaceWrite ==
    /\ w_pc = "write"
    /\ LET s == w_local.s
           e == Min(w_local.e, Cardinality(DOMAIN w_data))
       IN  w_data' = [i \in DOMAIN w_data |->
                         IF s <= i /\ i < e THEN w_local.value[i - s + 1] ELSE w_data[i]]
    /\ w_pc' = (IF w_kind = "ring" /\ w_local.e > w_capacity THEN "write_wrap"
                ELSE "set_length")
    /\ w_op' = "write"
    /\ UNCHANGED <<w_kind, w_capacity, w_length, w_zero_index, w_next, w_local,
                   w_before, w_after, w_seen>>
    /\ NotRace

\* RingArrayBuffer.extend, line 144: the rest of a wrapping block goes to
\* the slots from 0 on
RaceWriteWrap ==
    /\ w_pc = "write_wrap"
    /\ LET n == w_capacity
           s == w_local.s
           e == w_local.e
       IN  w_data' = [i \in DOMAIN w_data |->
                         IF i < e - n THEN w_local.value[n - s + i + 1] ELSE w_data[i]]
    /\ w_pc' = "set_length"
    /\ w_op' = "write_wrap"
    /\ UNCHANGED <<w_kind, w_capacity, w_length, w_zero_index, w_next, w_local,
                   w_before, w_after, w_seen>>
    /\ NotRace

\* the length is published: RingArrayBuffer lines 146-147, ArrayBuffer
\* line 181 (the last statement of its extend)
RaceSetLength ==
    /\ w_pc = "set_length"
    /\ LET l == Len(w_local.value)
       IN  w_length' = (IF w_kind = "ring"
                           THEN (IF w_local.length < w_capacity
                                    THEN Min(w_local.length + l, w_capacity)
                                    ELSE w_length)
                           ELSE w_local.length + l)
    /\ w_pc' = (IF w_kind = "ring" THEN "set_zero_index" ELSE "idle")
    /\ w_op' = "set_length"
    /\ UNCHANGED <<w_kind, w_data, w_capacity, w_zero_index, w_next, w_local,
                   w_before, w_after, w_seen>>
    /\ NotRace

\* RingArrayBuffer.extend, line 149: zero_index = (e - self.length) % n
RaceSetZeroIndex ==
    /\ w_pc = "set_zero_index"
    /\ w_zero_index' = (w_local.e - w_length) % w_capacity
    /\ w_pc' = "idle"
    /\ w_op' = "set_zero_index"
    /\ UNCHANGED <<w_kind, w_data, w_capacity, w_length, w_next, w_local,
                   w_before, w_after, w_seen>>
    /\ NotRace

\* the reader context calls to_array() wherever the writer stands
RaceRead ==
    /\ w_seen' = RaceContent
    /\ w_op' = "read"
    /\ UNCHANGED <<w_kind, w_data, w_capacity, w_length, w_zero_index, w_next, w_pc,
                   w_local, w_before, w_after>>
    /\ NotRace

NextRace ==
    \/ RaceBegin
    \/ RaceResizeData
    \/ RaceResizeCapacity
    \/ RaceWrite
    \/ RaceWriteWrap
    \/ RaceSetLength
    \/ RaceSetZeroIndex
    \/ RaceRead

SpecRace == InitRace /\ [][NextRace]_vars

\* C24: while one writer extends a buffer, every read of the reader returns
\* the logical content either as it was before that extend or as it is after
\* it, never new data under the old length / zero_index or the reverse.
C24_ReadsAtomic ==
    w_op = "read" => w_seen \in {w_before, w_after}

(***************************************************************************)
(* RingbufferBoard (RandomBoard, PlaybackBoard) polled by two consumers.   *)
(***************************************************************************)
\* clock ticks per second
TicksPerSecond == 2
\* last tick of a run
MaxTime == 4
\* largest n_samples a consumer asks for
MaxAsk == 2

Consumers == {"viewer", "forwarder"}
SamplingRates == {1, 3}

\* int(rate * seconds) for a time span given in ticks
n_samples_in(rate, ticks) == (rate * ticks) \div TicksPerSecond

\* get_n_samples_since_start, lines 95-96
b_get_n_samples_since_start(now) == n_samples_in(b_rate, now - b_start_time)

\* get_n_samples_since_access, lines 98-99, with the cursor given
n_samples_since(now, last_access) == n_samples_in(b_rate, now - last_access)

\* get_buffer_data_count, lines 101-107
get_buffer_data_count(now) ==
    LET count == n_samples_since(now, b_last_access)
    IN  IF b_buffer_size # None /\ count > b_buffer_size THEN b_buffer_size ELSE count

\* RingbufferBoard.__init__, lines 57-66: not started, no cursor
InitBoard ==
    /\ b_now = 0
    /\ b_start_time = None
    /\ b_last_access = None
    /\ b_rate \in SamplingRates
    /\ b_buffer_size \in {None, 2}
    /\ b_kind \in {"random", "playback"}
    /\ b_own_read = [c \in Consumers |-> None]
    /\ b_ret = 0
    /\ b_op = "init"
    /\ StreamerIdle /\ RingIdle /\ ArrayIdle /\ ChunkIdle /\ UpdaterIdle /\ SamplingIdle /\ IndexIdle /\ RaceIdle

NotBoard == UNCHANGED <<streamerVars, ringVars, arrayVars, chunkVars, updaterVars, samplingVars,
        indexVars,
        raceVars>>

\* the clock advances by one tick
BoardTick ==
    /\ b_now < MaxTime
    /\ b_now' = b_now + 1
    /\ b_op' = "tick"
    /\ UNCHANGED <<b_start_time, b_last_access, b_rate, b_buffer_size, b_kind,
                   b_own_read, b_ret>>
    /\ NotBoard

\* RingbufferBoard.start(), lines 72-75
BoardStart ==
    /\ b_start_time' = b_now
    /\ b_last_access' = b_now
    /\ b_own_read' = [c \in Consumers |-> None]
    /\ b_op' = "start"
    /\ UNCHANGED <<b_now, b_rate, b_buffer_size, b_kind, b_ret>>
    /\ NotBoard

\* RandomBoard.get_data, lines 153-158; PlaybackBoard.get_data, lines 245-250
board_get_data(now, n_samples) ==
    LET n_data == get_buffer_data_count(now)
    IN  [ret |-> IF n_samples # None THEN Min(n_data, n_samples) ELSE n_data,
         last_access |-> now]

\* consumer c calls get_data(n_samples) on the started board; PlaybackBoard
\* moves the cursor (line 249) before min(n_data, None) raises (line 250)
BoardGetData(c) ==
    /\ b_start_time # None
    /\ \E n_samples \in {None} \cup (0..MaxAsk) :
          LET r == board_get_data(b_now, n_samples)
              raises == b_kind = "playback" /\ n_samples = None
          IN  /\ b_ret' = (IF raises THEN None ELSE r.ret)
              /\ b_last_access' = r.last_access
              /\ b_op' = (IF raises THEN "get_data_error" ELSE "get_data")
    /\ b_own_read' = [b_own_read EXCEPT ![c] = b_now]
    /\ UNCHANGED <<b_now, b_start_time, b_rate, b_buffer_size, b_kind>>
    /\ NotBoard

\* consumer c calls get_current_data(n_samples): RandomBoard, lines 160-161,
\* forwards to get_data; PlaybackBoard, lines 252-256, leaves the cursor
BoardGetCurrentData(c) ==
    /\ b_start_time # None
    /\ \E n_samples \in {None} \cup (0..MaxAsk) :
          LET r == board_get_data(b_now, n_samples)
              raises == b_kind = "playback" /\ n_samples = None
          IN  /\ b_ret' = (IF raises THEN None ELSE r.ret)
              /\ b_last_access' = (IF b_kind = "random" THEN r.last_access ELSE b_last_access)
              /\ b_op' = (IF raises THEN "get_current_data_error"
                                    ELSE "get_current_data")
    /\ UNCHANGED <<b_now, b_start_time, b_rate, b_buffer_size, b_kind, b_own_read>>
    /\ NotBoard

NextBoard ==
    \/ BoardTick
    \/ BoardStart
    \/ \E c \in Consumers : BoardGetData(c)
    \/ \E c \in Consumers : BoardGetCurrentData(c)

SpecBoard == InitBoard /\ [][NextBoard]_vars

\* the time consumer c counts from: its own last read, else the start time
OwnSince(c) == IF b_own_read[c] # None THEN b_own_read[c] ELSE b_start_time

\* C9: a read by one consumer never changes what is available to the other:
\* at any time every consumer's samples-available (no buffer_size cap) is
\* floor(rate x (now - its own last read time)), counted from the start time
\* for a consumer that has never read.
C9_IndependentCursors ==
    (b_start_time # None /\ b_buffer_size = None) =>
        \A c \in Consumers :
            get_buffer_data_count(b_now) = n_samples_in(b_rate, b_now - OwnSince(c))

\* C18: get_current_data(n) leaves the last-access cursor unchanged on every
\* board, so a following get_data sees the same number of samples available;
\* only get_data (and start, which sets the cursor) moves the cursor.
C18_PeekKeepsCursor ==
    [][/\ b_op' \in {"get_current_data", "get_current_data_error"} =>
             /\ b_last_access' = b_last_access
             /\ get_buffer_data_count(b_now)' = get_buffer_data_count(b_now)
       /\ b_last_access' # b_last_access =>
             b_op' \in {"start", "get_data", "get_data_error"}]_vars

\* C29: a get_data(n) that finds more than n samples accrued consumes only the
\* n it returns: right after the call the samples it left (the accrued ones
\* beyond n, up to buffer_size) are still available to the next get_data.
C29_GetDataConsumesAsked ==
    [][(b_op' = "get_data" /\ b_ret' < get_buffer_data_count(b_now)) =>
           /\ get_buffer_data_count(b_now)' >= get_buffer_data_count(b_now) - b_ret'
           /\ get_buffer_data_count(b_now)' <=
                  n_samples_since(b_now, b_last_access) - b_ret']_vars

(***************************************************************************)
(* Updater on Timer: start(), stop() and the timer callback _update.       *)
(***************************************************************************)
\* Updater.update_interval, in ticks
UpdateInterval == 2
\* last tick of a run
MaxUpdaterTime == 6
\* longest session_length passed to start(), in ticks
MaxSession == 3
\* threading.Timer objects that may be pending at once
MaxPending == 2

\* a Timer.start() that leaves the running flag for the caller to set
timer_start_idle(now) == [running |-> FALSE, start_time |-> now, stop_time |-> None]

\* Timer.start(), lines 65-69
timer_start(now) == [running |-> TRUE, start_time |-> now, stop_time |-> None]

\* Timer.stop(), lines 71-75
timer_stop(now) == [running |-> FALSE, start_time |-> None, stop_time |-> now]

\* Timer.get_elapsed_time(current_time), lines 53-63
get_elapsed_time(running, start_time, stop_time, now) ==
    IF ~running
       THEN (IF stop_time # None THEN stop_time ELSE 0)
            - (IF start_time # None THEN start_time ELSE 0)
       ELSE now - start_time

\* a Timer.is_running that answers with the opposite of the flag
is_running_negated(running) == ~running

\* Timer.is_running(), lines 77-78
is_running(running) == running

\* seq without its last element equal to x (threading.Timer.cancel on the
\* timer object self._timer refers to)
cancel_timer(seq, x) ==
    LET at == {i \in 1..Len(seq) : seq[i] = x}
    IN  IF at = {} THEN seq
        ELSE LET k == CHOOSE i \in at : \A j \in at : j <= i
             IN  SubSeq(seq, 1, k - 1) \o SubSeq(seq, k + 1, Len(seq))

\* Updater.__init__, lines 52-60, on Timer.__init__, lines 33-36
InitUpdater ==
    /\ u_now = 0
    /\ u_running = FALSE
    /\ u_start_time = None
    /\ u_stop_time = None
    /\ u_session_length \in {None} \cup (1..MaxSession)
    /\ u_timer = None
    /\ u_pending = <<>>
    /\ u_last_start = None
    /\ u_calls = 0
    /\ u_op = "init"
    /\ StreamerIdle /\ RingIdle /\ ArrayIdle /\ ChunkIdle /\ BoardIdle /\ SamplingIdle /\ IndexIdle /\ RaceIdle

NotUpdater == UNCHANGED <<streamerVars, ringVars, arrayVars, chunkVars, boardVars, samplingVars,
        indexVars,
        raceVars>>

\* Updater.start(session_length), lines 78-85: Timer.start() runs first, so
\* the test `not self.is_running()` reads the flag it has just set
UpdaterStart ==
    /\ Len(u_pending) < MaxPending
    /\ \E session_length \in {None} \cup (1..MaxSession) :
          u_session_length' =
              (IF session_length # None THEN session_length ELSE u_session_length)
    /\ LET t == timer_start(u_now)
           arm == ~is_running(t.running)
       IN  /\ u_start_time' = t.start_time
           /\ u_stop_time' = t.stop_time
           /\ u_running' = (IF arm THEN TRUE ELSE t.running)
           /\ u_timer' = (IF arm THEN u_now + UpdateInterval ELSE u_timer)
           /\ u_pending' = (IF arm THEN Append(u_pending, u_now + UpdateInterval)
                            ELSE u_pending)
    /\ u_last_start' = u_now
    /\ u_calls' = 0
    /\ u_op' = "start"
    /\ UNCHANGED u_now
    /\ NotUpdater

\* Updater.stop(), lines 87-93: Timer.stop() runs first, so the test
\* `self.is_running()` reads the flag it has just cleared
UpdaterStop ==
    /\ LET t == timer_stop(u_now)
           halt == is_running(t.running)
       IN  /\ u_start_time' = t.start_time
           /\ u_stop_time' = t.stop_time
           /\ u_running' = (IF halt THEN FALSE ELSE t.running)
           /\ u_timer' = (IF halt /\ u_timer # None THEN None ELSE u_timer)
           /\ u_pending' = (IF halt /\ u_timer # None
                               THEN cancel_timer(u_pending, u_timer) ELSE u_pending)
    /\ u_op' = "stop"
    /\ UNCHANGED <<u_now, u_session_length, u_last_start, u_calls>>
    /\ NotUpdater

\* Updater._update, lines 70-74, run by each timer thread whose timer is due
\* (k of them): update() is called while running; the re-arm calls
\* _start_timer and get_time_elapsed_since_start, which no class defines, so
\* nothing is armed
updater_update(k) ==
    [calls |-> IF is_running(u_running) THEN u_calls + k ELSE u_calls,
     timer |-> None]

\* the timers of seq that are due at time now
DueTimers(seq, now) == {i \in 1..Len(seq) : seq[i] <= now}

\* the timers of seq that are not yet due at time now
RECURSIVE NotDue(_, _)
NotDue(seq, now) ==
    IF seq = <<>> THEN <<>>
    ELSE IF Head(seq) <= now THEN NotDue(Tail(seq), now)
    ELSE <<Head(seq)>> \o NotDue(Tail(seq), now)

\* the clock advances by one tick; every timer that has come due fires
UpdaterAdvanceTime ==
    /\ u_now < MaxUpdaterTime
    /\ u_now' = u_now + 1
    /\ LET k == Cardinality(DueTimers(u_pending, u_now + 1))
       IN  IF k > 0
              THEN /\ u_calls' = updater_update(k).calls
                   /\ u_timer' = (IF u_timer # None /\ u_timer <= u_now + 1
                                     THEN updater_update(k).timer ELSE u_timer)
              ELSE UNCHANGED <<u_calls, u_timer>>
    /\ u_pending' = NotDue(u_pending, u_now + 1)
    /\ u_op' = "tick"
    /\ UNCHANGED <<u_running, u_start_time, u_stop_time, u_session_length, u_last_start>>
    /\ NotUpdater

NextUpdater ==
    \/ UpdaterStart
    \/ UpdaterStop
    \/ UpdaterAdvanceTime

SpecUpdater == InitUpdater /\ [][NextUpdater]_vars

\* C10: after start() on an Updater that is not stopped and whose session
\* has not elapsed, the update callback is invoked, the first time one
\* interval after start(): once an interval has passed since start() the
\* callback has run at least once.
C10_FirstFire ==
    ( /\ u_running
      /\ u_start_time # None
      /\ u_now - u_start_time >= UpdateInterval
      /\ (u_session_length = None \/ u_now - u_start_time < u_session_length) )
    => u_calls >= 1

C25_SessionExpires ==
    ( /\ u_start_time # None
      /\ u_stop_time = None
      /\ u_session_length # None
      /\ u_now - u_start_time > u_session_length + UpdateInterval )
    => /\ ~is_running(u_running)
       /\ Len(u_pending) = 0

\* C12: get_elapsed_time returns 0 if the timer was never started,
\* now - start_time while it is running, and stop_time - start_time, the
\* duration of the last run, after it was started at start_time and stopped
\* at stop_time.
C12_ElapsedTime ==
    LET e == get_elapsed_time(u_running, u_start_time, u_stop_time, u_now)
    IN  /\ u_last_start = None => e = 0
        /\ u_running => e = u_now - u_last_start
        /\ (~u_running /\ u_last_start # None /\ u_stop_time # None) =>
               e = u_stop_time - u_last_start

(***************************************************************************)
(* SamplingCounter: the number of samples a clock at a fixed rate has      *)
(* produced since start() or since the last sampling time.                 *)
(***************************************************************************)
\* last tick of a run
MaxSamplingTime == 4

\* the values of the max_sample_size argument of a query: None, True, False
\* or a number
QueryCaps == {[kind |-> "None", n |-> 0], [kind |-> "True", n |-> 0],
              [kind |-> "False", n |-> 0], [kind |-> "int", n |-> 1]}

\* the last operation: its name and the kind of its max_sample_size argument
SamplingOp(name, cap) == [name |-> name, cap |-> cap]

\* what a query gives back: a count, or the exception it raised
Returned(n) == [err |-> "ok", n |-> n]
Raised(e) == [err |-> e, n |-> 0]

\* SamplingCounter._get_n_samples, lines 72-81: min(n_samples, None) raises
\* TypeError
sampling_get_n_samples(n_samples, cap) ==
    LET requested == IF cap.kind = "None" THEN [kind |-> "True", n |-> 0] ELSE cap
    IN  IF requested.kind = "False" THEN Returned(n_samples)
        ELSE LET limit == IF requested.kind = "True" THEN sc_max_sample_size
                          ELSE requested.n
             IN  IF limit = None THEN Raised("TypeError")
                 ELSE Returned(Min(n_samples, limit))

\* get_time_elapsed_since_start, called at line 88: neither SamplingCounter
\* nor Timer defines it (Timer has get_elapsed_time), the lookup raises
get_time_elapsed_since_start(now) == Raised("AttributeError")

\* SamplingCounter.get_time_elapsed_since_sampling, lines 69-70
get_time_elapsed_since_sampling(now) ==
    IF sc_last_sampling_time = None THEN Raised("TypeError")
    ELSE Returned(now - sc_last_sampling_time)

\* SamplingCounter.get_n_samples_since_start, lines 83-89
get_n_samples_since_start(now, cap) ==
    LET elapsed == get_time_elapsed_since_start(now)
    IN  IF elapsed.err # "ok" THEN elapsed
        ELSE sampling_get_n_samples(n_samples_in(sc_sampling_rate, elapsed.n), cap)

\* SamplingCounter.get_n_samples_since_sampling, lines 91-97
get_n_samples_since_sampling(now, cap) ==
    LET elapsed == get_time_elapsed_since_sampling(now)
    IN  IF elapsed.err # "ok" THEN elapsed
        ELSE sampling_get_n_samples(n_samples_in(sc_sampling_rate, elapsed.n), cap)

\* SamplingCounter.__init__, lines 45-53, on Timer.__init__, lines 33-36
InitSampling ==
    /\ sc_now = 0
    /\ sc_running = FALSE
    /\ sc_start_time = None
    /\ sc_stop_time = None
    /\ sc_sampling_rate \in SamplingRates
    /\ sc_max_sample_size \in {None, 2}
    /\ sc_last_sampling_time = None
    /\ sc_ret = Returned(0)
    /\ sc_op = SamplingOp("init", "-")
    /\ StreamerIdle /\ RingIdle /\ ArrayIdle /\ ChunkIdle /\ BoardIdle /\ UpdaterIdle /\ IndexIdle /\ RaceIdle

NotSampling ==
    UNCHANGED <<streamerVars, ringVars, arrayVars, chunkVars, boardVars, updaterVars,
        indexVars,
        raceVars>>

\* the clock advances by one tick
SamplingTick ==
    /\ sc_now < MaxSamplingTime
    /\ sc_now' = sc_now + 1
    /\ sc_op' = SamplingOp("tick", "-")
    /\ UNCHANGED <<sc_running, sc_start_time, sc_stop_time, sc_sampling_rate,
                   sc_max_sample_size, sc_last_sampling_time, sc_ret>>
    /\ NotSampling

\* SamplingCounter.start(), lines 105-106
SamplingStart ==
    /\ LET t == timer_start(sc_now)
       IN  /\ sc_running' = t.running
           /\ sc_start_time' = t.start_time
           /\ sc_stop_time' = t.stop_time
    /\ sc_op' = SamplingOp("start", "-")
    /\ UNCHANGED <<sc_now, sc_sampling_rate, sc_max_sample_size,
                   sc_last_sampling_time, sc_ret>>
    /\ NotSampling

\* SamplingCounter.stop(), lines 108-110
SamplingStop ==
    /\ LET t == timer_stop(sc_now)
       IN  /\ sc_running' = t.running
           /\ sc_start_time' = t.start_time
           /\ sc_stop_time' = t.stop_time
    /\ sc_last_sampling_time' = None
    /\ sc_op' = SamplingOp("stop", "-")
    /\ UNCHANGED <<sc_now, sc_sampling_rate, sc_max_sample_size, sc_ret>>
    /\ NotSampling

\* SamplingCounter.set_sampling_time(), lines 66-67
SamplingSetSamplingTime ==
    /\ sc_last_sampling_time' = sc_now
    /\ sc_op' = SamplingOp("set_sampling_time", "-")
    /\ UNCHANGED <<sc_now, sc_running, sc_start_time, sc_stop_time, sc_sampling_rate,
                   sc_max_sample_size, sc_ret>>
    /\ NotSampling

\* a call of get_n_samples_since_start(max_sample_size=cap)
SamplingSinceStart ==
    /\ \E cap \in QueryCaps :
          /\ sc_ret' = get_n_samples_since_start(sc_now, cap)
          /\ sc_op' = SamplingOp("get_n_samples_since_start", cap.kind)
    /\ UNCHANGED <<sc_now, sc_running, sc_start_time, sc_stop_time, sc_sampling_rate,
                   sc_max_sample_size, sc_last_sampling_time>>
    /\ NotSampling

\* a call of get_n_samples_since_sampling(max_sample_size=cap)
SamplingSinceSampling ==
    /\ \E cap \in QueryCaps :
          /\ sc_ret' = get_n_samples_since_sampling(sc_now, cap)
          /\ sc_op' = SamplingOp("get_n_samples_since_sampling", cap.kind)
    /\ UNCHANGED <<sc_now, sc_running, sc_start_time, sc_stop_time, sc_sampling_rate,
                   sc_max_sample_size, sc_last_sampling_time>>
    /\ NotSampling

NextSampling ==
    \/ SamplingTick
    \/ SamplingStart
    \/ SamplingStop
    \/ SamplingSetSamplingTime
    \/ SamplingSinceStart
    \/ SamplingSinceSampling

SpecSampling == InitSampling /\ [][NextSampling]_vars

\* C13: for a started SamplingCounter with rate r,
\* get_n_samples_since_start(now) equals floor(r x (now - start_time)) when
\* no max_sample_size is configured or clamping is not requested, and
\* min(floor(r x (now - start_time)), max_sample_size) when a cap is
\* configured and clamping is requested.
C13_SamplesSinceStart ==
    (sc_running /\ sc_op.name = "get_n_samples_since_start"
        /\ sc_op.cap \in {"None", "True", "False"}) =>
        LET n == n_samples_in(sc_sampling_rate, sc_now - sc_start_time)
        IN  IF sc_max_sample_size = None \/ sc_op.cap = "False"
               THEN sc_ret = Returned(n)
               ELSE sc_ret = Returned(Min(n, sc_max_sample_size))

(***************************************************************************)
(* Streamer: start(), stop() and the background send loop.                 *)
(***************************************************************************)
\* number of Thread objects one run may create (start() calls that spawn)
MaxThreads == 3
\* the count of sent datagrams saturates here
MaxSent == 2

Callers1 == {"c1"}
ThreadIds == 1..MaxThreads

\* threading.Thread.is_alive(): from Thread.start() until run() has returned
is_alive(t) == thr[t] \in {"socket", "loop", "pull", "send", "wait", "close"}

\* the background send loops that are alive
AliveLoops == {t \in ThreadIds : is_alive(t)}

\* the next unused Thread object
FreshThread == CHOOSE t \in ThreadIds : thr[t] = "new" /\ \A s \in ThreadIds : thr[s] = "new" => t <= s

InitStreamer ==
    /\ stop_event = FALSE
    /\ thread = 0
    /\ thr = [t \in ThreadIds |-> "new"]
    /\ cpc = [c \in Callers1 |-> "idle"]
    /\ last_call = "none"
    /\ sent = 0
    /\ variant \in {"udp", "osc"}
    /\ RingIdle /\ ArrayIdle /\ ChunkIdle /\ BoardIdle /\ UpdaterIdle /\ SamplingIdle /\ IndexIdle /\ RaceIdle

\* the class of a streamer never changes
NotStreamer == UNCHANGED <<variant, ringVars, arrayVars, chunkVars, boardVars, updaterVars, samplingVars,
        indexVars,
        raceVars>>

\* a start() that spawns without looking at the running thread
start_check_blind(c) ==
    /\ cpc[c] = "idle"
    /\ \E t \in ThreadIds : thr[t] = "new"
    /\ cpc' = [cpc EXCEPT ![c] = "start_clear"]
    /\ last_call' = "start"
    /\ UNCHANGED <<stop_event, thread, thr, sent>>
    /\ NotStreamer

\* start(), lines 68-70: the alive check; a running streamer warns and returns
start_check(c) ==
    /\ cpc[c] = "idle"
    /\ \E t \in ThreadIds : thr[t] = "new"
    /\ IF thread # 0 /\ is_alive(thread)
          THEN cpc' = cpc
          ELSE cpc' = [cpc EXCEPT ![c] = "start_clear"]
    /\ last_call' = (IF thread # 0 /\ is_alive(thread) THEN "start_noop" ELSE "start")
    /\ UNCHANGED <<stop_event, thread, thr, sent>>
    /\ NotStreamer

\* start(), line 72: self.stop_event.clear()
start_clear(c) ==
    /\ cpc[c] = "start_clear"
    /\ stop_event' = FALSE
    /\ cpc' = [cpc EXCEPT ![c] = "start_create"]
    /\ UNCHANGED <<thread, thr, last_call, sent>>
    /\ NotStreamer

\* start(), line 73: self.thread = threading.Thread(target=self._send_data_loop)
start_create(c) ==
    /\ cpc[c] = "start_create"
    /\ \E t \in ThreadIds : thr[t] = "new"
    /\ thread' = FreshThread
    /\ thr' = [thr EXCEPT ![FreshThread] = "created"]
    /\ cpc' = [cpc EXCEPT ![c] = "start_thread"]
    /\ UNCHANGED <<stop_event, last_call, sent>>
    /\ NotStreamer

\* start(), line 74: self.thread.start(); starting a thread twice raises.
\* The new thread runs _send_data_loop: UDPStreamer begins with its socket
\* (line 100), OSCStreamer with the loop test (line 127)
start_thread(c) ==
    /\ cpc[c] = "start_thread"
    /\ thr' = IF thr[thread] = "created"
                 THEN [thr EXCEPT ![thread] = IF variant = "udp" THEN "socket" ELSE "loop"]
                 ELSE thr
    /\ cpc' = [cpc EXCEPT ![c] = "idle"]
    /\ UNCHANGED <<stop_event, thread, last_call, sent>>
    /\ NotStreamer

\* stop(), lines 78-80: an idle streamer warns and returns
stop_check(c) ==
    /\ cpc[c] = "idle"
    /\ IF thread = 0 \/ ~is_alive(thread)
          THEN cpc' = cpc
          ELSE cpc' = [cpc EXCEPT ![c] = "stop_set"]
    /\ last_call' = (IF thread = 0 \/ ~is_alive(thread) THEN "stop_noop" ELSE "stopping")
    /\ UNCHANGED <<stop_event, thread, thr, sent>>
    /\ NotStreamer

\* stop(), line 82: self.stop_event.set()
stop_set(c) ==
    /\ cpc[c] = "stop_set"
    /\ stop_event' = TRUE
    /\ cpc' = [cpc EXCEPT ![c] = "stop_join"]
    /\ UNCHANGED <<thread, thr, last_call, sent>>
    /\ NotStreamer

\* a stop() that returns without waiting for the loop
stop_join_nowait(c) ==
    /\ cpc[c] = "stop_join"
    /\ cpc' = [cpc EXCEPT ![c] = "idle"]
    /\ last_call' = "stop"
    /\ UNCHANGED <<stop_event, thread, thr, sent>>
    /\ NotStreamer

\* stop(), line 83: self.thread.join() returns once the thread is not alive
stop_join(c) ==
    /\ cpc[c] = "stop_join"
    /\ ~is_alive(thread)
    /\ cpc' = [cpc EXCEPT ![c] = "idle"]
    /\ last_call' = "stop"
    /\ UNCHANGED <<stop_event, thread, thr, sent>>
    /\ NotStreamer

\* _send_data_loop, line 100: the thread creates its UDP socket
loop_socket(t) ==
    /\ thr[t] = "socket"
    /\ thr' = [thr EXCEPT ![t] = "loop"]
    /\ UNCHANGED <<stop_event, thread, cpc, last_call, sent>>
    /\ NotStreamer

\* a loop test that does not look at the cancellation signal
loop_test_deaf(t) ==
    /\ thr[t] = "loop"
    /\ thr' = [thr EXCEPT ![t] = IF variant = "udp" THEN "pull" ELSE "send"]
    /\ UNCHANGED <<stop_event, thread, cpc, last_call, sent>>
    /\ NotStreamer

\* _send_data_loop, lines 102 and 127: while not self.is_stopped();
\* UDPStreamer pulls with get_data() and sends, OSCStreamer only sends
loop_test(t) ==
    /\ thr[t] = "loop"
    /\ thr' = [thr EXCEPT ![t] = IF stop_event THEN "close"
                                 ELSE IF variant = "udp" THEN "pull" ELSE "send"]
    /\ UNCHANGED <<stop_event, thread, cpc, last_call, sent>>
    /\ NotStreamer

\* line 104, self.get_data(): the pull; an exception skips the send (line 106)
loop_pull(t) ==
    /\ thr[t] = "pull"
    /\ \E ok \in BOOLEAN : thr' = [thr EXCEPT ![t] = IF ok THEN "send" ELSE "wait"]
    /\ UNCHANGED <<stop_event, thread, cpc, last_call, sent>>
    /\ NotStreamer

\* line 104, sock.sendto(...): the send; an exception is logged (line 106).
\* OSCStreamer, line 129: self.client and data are not defined, the
\* exception is caught and logged (lines 131-132) every time
loop_send(t) ==
    /\ thr[t] = "send"
    /\ thr' = [thr EXCEPT ![t] = "wait"]
    /\ \E ok \in BOOLEAN :
          sent' = IF ok /\ variant = "udp" /\ sent < MaxSent THEN sent + 1 ELSE sent
    /\ UNCHANGED <<stop_event, thread, cpc, last_call>>
    /\ NotStreamer

\* line 109, self.stop_event.wait(self.interval): ends on timeout or on set.
\* OSCStreamer, line 134, waits self.interval_seconds, an attribute nothing
\* sets: the AttributeError is raised outside the try and ends the thread
loop_wait(t) ==
    /\ thr[t] = "wait"
    /\ thr' = [thr EXCEPT ![t] = IF variant = "udp" THEN "loop" ELSE "crashed"]
    /\ UNCHANGED <<stop_event, thread, cpc, last_call, sent>>
    /\ NotStreamer

\* lines 111-112: sock.close(), the thread ends (OSCStreamer: line 136)
loop_close(t) ==
    /\ thr[t] = "close"
    /\ thr' = [thr EXCEPT ![t] = "dead"]
    /\ UNCHANGED <<stop_event, thread, cpc, last_call, sent>>
    /\ NotStreamer

NextStreamer ==
    \/ \E c \in Callers1 : start_check(c)
    \/ \E c \in Callers1 : start_clear(c)
    \/ \E c \in Callers1 : start_create(c)
    \/ \E c \in Callers1 : start_thread(c)
    \/ \E c \in Callers1 : stop_check(c)
    \/ \E c \in Callers1 : stop_set(c)
    \/ \E c \in Callers1 : stop_join(c)
    \/ \E t \in ThreadIds : loop_socket(t)
    \/ \E t \in ThreadIds : loop_test(t)
    \/ \E t \in ThreadIds : loop_pull(t)
    \/ \E t \in ThreadIds : loop_send(t)
    \/ \E t \in ThreadIds : loop_wait(t)
    \/ \E t \in ThreadIds : loop_close(t)

SpecStreamer == InitStreamer /\ [][NextStreamer]_vars

\* C1: driven by a single caller, at most one background send loop is alive
\* after any sequence of start() and stop() calls; start() on a running
\* streamer spawns no second loop and leaves the running one alone, and
\* stop() on an idle streamer changes nothing.
C1_OneLoop ==
    /\ Cardinality(AliveLoops) <= 1
    /\ AliveLoops \subseteq {thread}

C1_Witness ==
    /\ last_call = "start_noop"
    /\ Cardinality(AliveLoops) = 1
    /\ thr[1] = "dead"
    /\ cpc["c1"] = "idle"

\* C2: once a joining stop() has returned, and until the next start(), the
\* background loop has exited: no thread of the streamer is alive, so no
\* further pull or send can happen.
C2_StopJoins ==
    (last_call \in {"stop", "stop_noop"} /\ cpc["c1"] = "idle") => AliveLoops = {}

C2_Witness ==
    /\ last_call = "stop"
    /\ sent > 0
    /\ thread # 0 /\ thr[thread] = "dead"
    /\ cpc["c1"] = "idle"

\* the loop thread keeps being scheduled and get_data and send return; a
\* caller inside stop() goes on to its next statement
FairSpecStreamer ==
    /\ SpecStreamer
    /\ \A t \in ThreadIds :
          WF_vars(loop_socket(t) \/ loop_test(t) \/ loop_pull(t) \/ loop_send(t)
                     \/ loop_wait(t) \/ loop_close(t))
    /\ \A c \in Callers1 : WF_vars(stop_set(c) \/ stop_join(c))

\* C26: a stop() on a running streamer eventually returns: once the
\* cancellation signal is set the loop starts no further iteration (the
\* test after the interval wait leads out of the loop) and the thread ends,
\* so the join returns.
C26_StopReturns ==
    /\ \A c \in Callers1 : (cpc[c] = "stop_set") ~> (cpc[c] = "idle")
    /\ [][\A t \in ThreadIds :
             (stop_event /\ thr[t] = "loop" /\ thr'[t] # thr[t]) => thr'[t] = "close"]_vars

\* a stop() that found the UDP loop running has returned; the signal is
\* still set and the loop thread has ended
C26_Witness ==
    /\ variant = "udp"
    /\ last_call = "stop"
    /\ cpc["c1"] = "idle"
    /\ stop_event
    /\ thread # 0 /\ thr[thread] = "dead"

\* C27: the streamer is restartable: once stop() has returned no loop is
\* alive, and once a spawning start() has returned, in any cycle, and until
\* the next stop(), the cancellation signal is clear and the new loop is
\* alive, pulling and sending.
C27_Restartable ==
    /\ (last_call = "stop" /\ cpc["c1"] = "idle") => AliveLoops = {}
    /\ (last_call = "start" /\ cpc["c1"] = "idle") =>
          /\ ~stop_event
          /\ thread # 0 /\ is_alive(thread)

\* two contexts (a consumer and a supervisor) driving one streamer
Callers2 == {"c1", "c2"}

InitStreamer2 ==
    /\ stop_event = FALSE
    /\ thread = 0
    /\ thr = [t \in ThreadIds |-> "new"]
    /\ cpc = [c \in Callers2 |-> "idle"]
    /\ last_call = "none"
    /\ sent = 0
    /\ variant \in {"udp", "osc"}
    /\ RingIdle /\ ArrayIdle /\ ChunkIdle /\ BoardIdle /\ UpdaterIdle /\ SamplingIdle /\ IndexIdle /\ RaceIdle

\* start() and stop() have no lock: the steps of the two callers and of the
\* loop threads interleave freely
NextStreamer2 ==
    \/ \E c \in Callers2 : start_check(c)
    \/ \E c \in Callers2 : start_clear(c)
    \/ \E c \in Callers2 : start_create(c)
    \/ \E c \in Callers2 : start_thread(c)
    \/ \E c \in Callers2 : stop_check(c)
    \/ \E c \in Callers2 : stop_set(c)
    \/ \E c \in Callers2 : stop_join(c)
    \/ \E t \in ThreadIds : loop_socket(t)
    \/ \E t \in ThreadIds : loop_test(t)
    \/ \E t \in ThreadIds : loop_pull(t)
    \/ \E t \in ThreadIds : loop_send(t)
    \/ \E t \in ThreadIds : loop_wait(t)
    \/ \E t \in ThreadIds : loop_close(t)

SpecStreamer2 == InitStreamer2 /\ [][NextStreamer2]_vars

\* C22: with two contexts calling start() and stop() on one streamer
\* concurrently, in every interleaving of the alive check, the signal clear,
\* the thread creation and the thread start at most one send loop is alive.
C22_OneLoopConcurrent == Cardinality(AliveLoops) <= 1

\* C14: in both streamer variants a failed pull or send is contained: the
\* loop goes on to wait the interval and then to the next iteration, and the
\* loop thread ends only once the cancellation signal has been set.
C14_FailureContained ==
    [][\A t \in ThreadIds :
          /\ (thr[t] \in {"pull", "send"} /\ thr'[t] # thr[t]) => thr'[t] \in {"send", "wait"}
          /\ (thr[t] = "wait" /\ thr'[t] # thr[t]) => thr'[t] = "loop"
          /\ (is_alive(t) /\ ~(is_alive(t))') => stop_event]_vars

====
